---- MODULE Spec2Model ----
(***************************************************************************)
(* A model of http-serve's `serve` (src/src/serving.rs): conditional and   *)
(* byte-range evaluation of one GET/HEAD request against one entity, the   *)
(* response it builds, and the lazy body stream the transport then polls.  *)
(* The range resolver and the If-Match / If-None-Match evaluators are the  *)
(* ones of src/src/lib.rs.                                                 *)
(*                                                                         *)
(* Times are counted in ticks, TicksPerSec ticks to the second: SystemTime *)
(* has sub-second resolution, HTTP dates have none. u64 is narrowed to a   *)
(* word of 12 bits, and the build, with or without overflow checks, is a   *)
(* variable.                                                               *)
(*                                                                         *)
(* SinkSpec is the chunked body sink of the streaming mode, its writer and *)
(* its reader on two tasks, as spec.md 4.7 and 5 describe it.              *)
(***************************************************************************)
EXTENDS Integers, Sequences, FiniteSets, TLC

VARIABLES
    ent,    \* the entity handed to serve
    req,    \* the request: method and headers
    now,    \* what SystemTime::now() reads during the call
    pc,     \* "start" (not served yet), "body" (response returned), "end",
            \* or "panicked" (serve unwound)
    resp,   \* the response serve returned
    state,  \* the unfold state of the multipart body stream
    out,    \* the items the body stream has yielded so far
    calls,  \* the Entity methods invoked so far, in order
    overflow_checks,
            \* the build: TRUE if integer overflow panics (debug-assertions),
            \* FALSE if it wraps (release)
    chunk_size,  \* the chunked sink: its configured chunk size
    sink_state,  \* "Open", "Closed" or "Aborted"
    buf,         \* the writer side's buffer
    slot,        \* the chunks handed off and not yet taken by the reader
    wpc,         \* the writer task: "idle", or in "write", "flush", "close"
    pending,     \* the bytes of the write under way that are not buffered yet
    wres,        \* the outcome of the writer's last operation
    written,     \* every byte passed to a write so far, in order
    rpc,         \* the reader side: "open", "eof", "error", "gone" (dropped)
    got,         \* the bytes the reader has observed, in order
    ncalls,      \* how many times the writer has called close and abort
    sreq,        \* the request handed to streaming_body
    gzip_level,  \* the builder's gzip_level option
    built,       \* what build returned: the response and the optional writer
    prefers      \* the outcomes of should_gzip on the request's successive
                 \* Accept-Encoding values

serveVars == <<ent, req, now, pc, resp, state, out, calls, overflow_checks>>

sinkVars ==
    <<chunk_size, sink_state, buf, slot, wpc, pending, wres, written, rpc, got,
      ncalls>>

gzipVars == <<sreq, gzip_level, built, prefers>>

vars == <<serveVars, sinkVars, gzipVars>>

---------------------------------------------------------------------------
(* Bounds of the model.                                                    *)

MaxLen == 2
MaxPos == 2
MaxSpecs == 2
MaxTags == 2
MaxSecs == 1
TicksPerSec == 2
MaxChunk == 2
MaxWrite == 3
MaxBytes == 4
MaxCalls == 2

---------------------------------------------------------------------------
(* Option values.                                                          *)

None == <<>>

Some(x) == <<x>>

IsSome(o) == o # <<>>

Get(o) == o[1]

---------------------------------------------------------------------------
(* Entity tags.                                                            *)

Tag(w, o) == [weak |-> w, opaque |-> o]

EtagWire(t) == (IF t.weak THEN "W/" ELSE "") \o "\"" \o t.opaque \o "\""

strong_eq(a, b) == ~a.weak /\ ~b.weak /\ a.opaque = b.opaque

weak_eq(a, b) == a.opaque = b.opaque

---------------------------------------------------------------------------
(* HTTP dates.                                                             *)

fmt_http_date(t) == ToString(t \div TicksPerSec) \o " GMT"

HttpDateError == [ok |-> FALSE, t |-> 0]

\* since.to_str() fails on non-ASCII bytes, parse_http_date on anything that
\* is not a date; a date carries whole seconds.
parse_http_date(v) ==
    IF v.kind = "date" THEN [ok |-> TRUE, t |-> v.secs * TicksPerSec]
    ELSE HttpDateError

---------------------------------------------------------------------------
(* u64 arithmetic. The word is narrowed: WordMax stands for u64::MAX.      *)

WordMax == 4095

wrapping(x) == x % (WordMax + 1)

\* `a + b` on u64 overflows.
add_overflows(a, b) == a + b > WordMax

---------------------------------------------------------------------------
(* The range resolver (lib.rs, parse_range_header).                        *)

Range(s, e) == [start |-> s, end |-> e]

Min(a, b) == IF a <= b THEN a ELSE b

ResolvedNone == [kind |-> "None", rs |-> <<>>]

NotSatisfiable == [kind |-> "NotSatisfiable", rs |-> <<>>]

Satisfiable(rs) == [kind |-> "Satisfiable", rs |-> rs]

\* Mutant: last-byte-pos taken as exclusive.
push_range_exclusive(ranges, spec, resource_len) ==
    CASE spec.kind = "FromTo" ->
            LET end == Min(spec.b, resource_len)
            IN  IF spec.a >= end THEN ranges
                ELSE Append(ranges, Range(spec.a, end))
      [] spec.kind = "AllFrom" ->
            IF spec.a >= resource_len THEN ranges
            ELSE Append(ranges, Range(spec.a, resource_len))
      [] spec.kind = "Last" ->
            IF spec.a >= resource_len THEN ranges
            ELSE Append(ranges, Range(resource_len - spec.a, resource_len))

\* One iteration of the loop over byte_ranges: the list with the spec's
\* interval pushed, or the list as it was (`continue`).
push_range(ranges, spec, resource_len) ==
    CASE spec.kind = "FromTo" ->
            LET end == Min(wrapping(spec.b + 1), resource_len)
            IN  IF spec.a >= end THEN ranges
                ELSE Append(ranges, Range(spec.a, end))
      [] spec.kind = "AllFrom" ->
            IF spec.a >= resource_len THEN ranges
            ELSE Append(ranges, Range(spec.a, resource_len))
      [] spec.kind = "Last" ->
            IF spec.a >= resource_len THEN ranges
            ELSE Append(ranges, Range(resource_len - spec.a, resource_len))

RECURSIVE resolve_specs(_, _, _)
resolve_specs(ranges, byte_ranges, resource_len) ==
    IF byte_ranges = <<>> THEN ranges
    ELSE resolve_specs(push_range(ranges, Head(byte_ranges), resource_len),
                       Tail(byte_ranges), resource_len)

\* `range_to + 1` overflows for some spec of the list.
range_to_overflows(byte_ranges) ==
    \E i \in 1..Len(byte_ranges) :
        byte_ranges[i].kind = "FromTo" /\ add_overflows(byte_ranges[i].b, 1)

ResolverPanic == [kind |-> "Panic", rs |-> <<>>]

parse_range_header(range, resource_len) ==
    IF IsSome(range) /\ Get(range).unit = "bytes"
    THEN IF overflow_checks /\ range_to_overflows(Get(range).specs)
         THEN ResolverPanic
         ELSE LET ranges == resolve_specs(<<>>, Get(range).specs, resource_len)
              IN  IF ranges # <<>> THEN Satisfiable(ranges)
                  ELSE NotSatisfiable
    ELSE ResolvedNone

---------------------------------------------------------------------------
(* If-Match and If-None-Match (lib.rs, any_match and none_match).          *)

\* Mutant: If-None-Match compared strongly.
none_match_strong(etag, hdr) ==
    IF ~IsSome(hdr) THEN TRUE
    ELSE IF Get(hdr).kind = "any" THEN FALSE
    ELSE ~(/\ IsSome(etag)
           /\ \E i \in 1..Len(Get(hdr).items) :
                  strong_eq(Get(hdr).items[i], Get(etag)))

\* TRUE if the request has no If-None-Match header matching the etag.
none_match(etag, hdr) ==
    IF ~IsSome(hdr) THEN TRUE
    ELSE IF Get(hdr).kind = "any" THEN FALSE
    ELSE ~(/\ IsSome(etag)
           /\ \E i \in 1..Len(Get(hdr).items) :
                  weak_eq(Get(hdr).items[i], Get(etag)))

\* Mutant: If-Match compared weakly.
any_match_weak(etag, hdr) ==
    IF ~IsSome(hdr) \/ Get(hdr).kind = "any" THEN TRUE
    ELSE /\ IsSome(etag)
         /\ \E i \in 1..Len(Get(hdr).items) :
                weak_eq(Get(hdr).items[i], Get(etag))

\* TRUE if the request has no If-Match header or one which matches the etag.
any_match(etag, hdr) ==
    IF ~IsSome(hdr) \/ Get(hdr).kind = "any" THEN TRUE
    ELSE /\ IsSome(etag)
         /\ \E i \in 1..Len(Get(hdr).items) :
                strong_eq(Get(hdr).items[i], Get(etag))

\* The fallible forms serving.rs calls: a header that does not parse is an
\* error, otherwise the verdict above.
etag_any_match(etag, hdr) ==
    IF IsSome(hdr) /\ Get(hdr).kind = "corrupt"
    THEN [ok |-> FALSE, v |-> FALSE, err |-> "Unparseable If-Match header"]
    ELSE [ok |-> TRUE, v |-> any_match(etag, hdr), err |-> ""]

etag_none_match(etag, hdr) ==
    IF IsSome(hdr) /\ Get(hdr).kind = "corrupt"
    THEN [ok |-> FALSE, v |-> FALSE, err |-> "Unparseable If-None-Match header"]
    ELSE [ok |-> TRUE, v |-> none_match(etag, hdr), err |-> ""]

unwrap_or(r, default) == IF r.ok THEN r.v ELSE default

---------------------------------------------------------------------------
(* The conditional evaluator (serving.rs, parse_modified_hdrs).            *)

Err(s) == [ok |-> FALSE, err |-> s,
           precondition_failed |-> FALSE, not_modified |-> FALSE]

Ok(p, n) == [ok |-> TRUE, err |-> "",
             precondition_failed |-> p, not_modified |-> n]

\* Mutant: an If-Unmodified-Since that does not parse is passed over.
precondition_failed_of_lenient(etag, req_hdrs, last_modified) ==
    LET am == etag_any_match(etag, req_hdrs.if_match)
    IN  IF ~am.ok THEN [ok |-> FALSE, v |-> FALSE, err |-> am.err]
        ELSE IF ~am.v THEN [ok |-> TRUE, v |-> TRUE, err |-> ""]
        ELSE IF IsSome(last_modified) /\ IsSome(req_hdrs.if_unmodified_since)
        THEN LET since == parse_http_date(Get(req_hdrs.if_unmodified_since))
             IN  [ok |-> TRUE,
                  v |-> since.ok /\ Get(last_modified) > since.t,
                  err |-> ""]
        ELSE [ok |-> TRUE, v |-> FALSE, err |-> ""]

\* The first `let`: an error (`?`) or the value of precondition_failed.
precondition_failed_of(etag, req_hdrs, last_modified) ==
    LET am == etag_any_match(etag, req_hdrs.if_match)
    IN  IF ~am.ok THEN [ok |-> FALSE, v |-> FALSE, err |-> am.err]
        ELSE IF ~am.v THEN [ok |-> TRUE, v |-> TRUE, err |-> ""]
        ELSE IF IsSome(last_modified) /\ IsSome(req_hdrs.if_unmodified_since)
        THEN LET since == parse_http_date(Get(req_hdrs.if_unmodified_since))
             IN  IF ~since.ok
                 THEN [ok |-> FALSE, v |-> FALSE,
                       err |-> "Unparseable If-Unmodified-Since"]
                 ELSE [ok |-> TRUE, v |-> Get(last_modified) > since.t,
                       err |-> ""]
        ELSE [ok |-> TRUE, v |-> FALSE, err |-> ""]

\* Mutant: `<` for `<=`.
not_modified_of_strict(etag, req_hdrs, last_modified) ==
    IF ~unwrap_or(etag_none_match(etag, req_hdrs.if_none_match), TRUE)
    THEN [ok |-> TRUE, v |-> TRUE, err |-> ""]
    ELSE IF IsSome(last_modified) /\ IsSome(req_hdrs.if_modified_since)
    THEN LET since == parse_http_date(Get(req_hdrs.if_modified_since))
         IN  IF ~since.ok
             THEN [ok |-> FALSE, v |-> FALSE,
                   err |-> "Unparseable If-Modified-Since"]
             ELSE [ok |-> TRUE, v |-> Get(last_modified) < since.t,
                   err |-> ""]
    ELSE [ok |-> TRUE, v |-> FALSE, err |-> ""]

\* The second `let`: an error (`?`) or the value of not_modified.
not_modified_of(etag, req_hdrs, last_modified) ==
    IF ~unwrap_or(etag_none_match(etag, req_hdrs.if_none_match), TRUE)
    THEN [ok |-> TRUE, v |-> TRUE, err |-> ""]
    ELSE IF IsSome(last_modified) /\ IsSome(req_hdrs.if_modified_since)
    THEN LET since == parse_http_date(Get(req_hdrs.if_modified_since))
         IN  IF ~since.ok
             THEN [ok |-> FALSE, v |-> FALSE,
                   err |-> "Unparseable If-Modified-Since"]
             ELSE [ok |-> TRUE, v |-> Get(last_modified) <= since.t,
                   err |-> ""]
    ELSE [ok |-> TRUE, v |-> FALSE, err |-> ""]

parse_modified_hdrs(etag, req_hdrs, last_modified) ==
    LET p == precondition_failed_of(etag, req_hdrs, last_modified)
        n == not_modified_of(etag, req_hdrs, last_modified)
    IN  IF ~p.ok THEN Err(p.err)
        ELSE IF ~n.ok THEN Err(n.err)
        ELSE Ok(p.v, n.v)

---------------------------------------------------------------------------
(* Responses, bodies and the entity's methods.                             *)

NoHeaders == <<>>

\* HeaderMap::insert / Builder::header of a name the map does not hold yet.
SetHeader(h, name, value) == (name :> value) @@ h

HasHeader(h, name) == name \in DOMAIN h

Call(op) == [op |-> op, range |-> <<>>]

CallGetRange(r) == [op |-> "get_range", range |-> <<r>>]

empty_body == [kind |-> "empty", text |-> "", rs |-> <<>>, part_headers |-> <<>>]

static_body(s) == [kind |-> "static", text |-> s, rs |-> <<>>, part_headers |-> <<>>]

\* The stream Entity::get_range(range) returns.
get_range_body(r) ==
    [kind |-> "range", text |-> "", rs |-> <<r>>, part_headers |-> <<>>]

\* The unfold stream send_multipart returns.
multipart_body(rs, part_headers) ==
    [kind |-> "multipart", text |-> "", rs |-> rs, part_headers |-> part_headers]

Response(status, headers, body, cs) ==
    [status |-> status, headers |-> headers, body |-> body, calls |-> cs]

\* The call unwinds with "attempt to add with overflow": no response.
Panic(cs) ==
    Response(0, NoHeaders,
             [kind |-> "panic", text |-> "", rs |-> <<>>, part_headers |-> <<>>],
             cs)

\* Entity::add_headers: the entity inserts its representation headers.
RECURSIVE add_headers(_, _)
add_headers(adds, h) ==
    IF adds = <<>> THEN h
    ELSE add_headers(Tail(adds), SetHeader(h, Head(adds).name, Head(adds).value))

---------------------------------------------------------------------------
(* The multipart framer (serving.rs, send_multipart).                      *)

TRAILER == "\r\n--B--\r\n"

\* `for (k, v) in &h`: each header as "k: v\r\n".
RECURSIVE render_headers(_)
render_headers(adds) ==
    IF adds = <<>> THEN ""
    ELSE Head(adds).name \o ": " \o Head(adds).value \o "\r\n"
         \o render_headers(Tail(adds))

each_part_headers_of(e, include_entity_headers) ==
    (IF include_entity_headers THEN render_headers(e.adds) ELSE "") \o "\r\n"

part_header(r, len, each_part_headers) ==
    "\r\n--B\r\nContent-Range: bytes " \o ToString(r.start) \o "-"
    \o ToString(r.end - 1) \o "/" \o ToString(len) \o "\r\n"
    \o each_part_headers

\* Mutant: the header blocks counted, the ranges' bytes left out.
RECURSIVE parts_len_headers_only(_, _)
parts_len_headers_only(rs, part_headers) ==
    IF rs = <<>> THEN 0
    ELSE Len(Head(part_headers))
         + parts_len_headers_only(Tail(rs), Tail(part_headers))

RECURSIVE parts_len(_, _)
parts_len(rs, part_headers) ==
    IF rs = <<>> THEN 0
    ELSE Len(Head(part_headers)) + Head(rs).end - Head(rs).start
         + parts_len(Tail(rs), Tail(part_headers))

\* `body_len += buf.len() as u64 + r.end - r.start` or the trailer's addition
\* overflows.
body_len_overflows(rs, part_headers) ==
    \/ \E i \in 1..Len(rs) : add_overflows(Len(part_headers[i]), rs[i].end)
    \/ add_overflows(parts_len(rs, part_headers), Len(TRAILER))

\* Mutant: the HEAD check made before Content-Length and Content-Type are set.
send_multipart_head_first(e, rq, res, rs, len, include_entity_headers, cs) ==
    LET each_part_headers == each_part_headers_of(e, include_entity_headers)
        part_headers ==
            [i \in 1..Len(rs) |-> part_header(rs[i], len, each_part_headers)]
        body_len == wrapping(parts_len(rs, part_headers) + Len(TRAILER))
        h == SetHeader(SetHeader(res, "content-length", ToString(body_len)),
                       "content-type", "multipart/byteranges; boundary=B")
        cs1 == IF include_entity_headers THEN Append(cs, Call("add_headers"))
               ELSE cs
    IN  IF overflow_checks /\ body_len_overflows(rs, part_headers)
        THEN Panic(cs1)
        ELSE IF rq.method = "HEAD" THEN Response(206, res, empty_body, cs1)
        ELSE Response(206, h, multipart_body(rs, part_headers), cs1)

send_multipart(e, rq, res, rs, len, include_entity_headers, cs) ==
    LET each_part_headers == each_part_headers_of(e, include_entity_headers)
        part_headers ==
            [i \in 1..Len(rs) |-> part_header(rs[i], len, each_part_headers)]
        body_len == wrapping(parts_len(rs, part_headers) + Len(TRAILER))
        h == SetHeader(SetHeader(res, "content-length", ToString(body_len)),
                       "content-type", "multipart/byteranges; boundary=B")
        cs1 == IF include_entity_headers THEN Append(cs, Call("add_headers"))
               ELSE cs
    IN  IF overflow_checks /\ body_len_overflows(rs, part_headers)
        THEN Panic(cs1)
        ELSE IF rq.method = "HEAD" THEN Response(206, h, empty_body, cs1)
        ELSE Response(206, h, multipart_body(rs, part_headers), cs1)

---------------------------------------------------------------------------
(* serve (serving.rs).                                                     *)

PartEstimate == 80

\* Mutant: If-Range compared weakly.
if_range_step_weak(req_hdrs, etag) ==
    IF IsSome(req_hdrs.if_range)
    THEN IF Get(req_hdrs.if_range).form = "etag"
         THEN IF IsSome(etag) /\ weak_eq(Get(req_hdrs.if_range).tag, Get(etag))
              THEN [range_hdr |-> req_hdrs.range,
                    include_entity_headers_on_range |-> FALSE]
              ELSE [range_hdr |-> None,
                    include_entity_headers_on_range |-> TRUE]
         ELSE [range_hdr |-> None, include_entity_headers_on_range |-> TRUE]
    ELSE [range_hdr |-> req_hdrs.range,
          include_entity_headers_on_range |-> TRUE]

\* Mutant: a date-form If-Range lets the Range header through.
if_range_step_date(req_hdrs, etag) ==
    IF IsSome(req_hdrs.if_range)
    THEN IF Get(req_hdrs.if_range).form = "etag"
         THEN IF IsSome(etag) /\ strong_eq(Get(req_hdrs.if_range).tag, Get(etag))
              THEN [range_hdr |-> req_hdrs.range,
                    include_entity_headers_on_range |-> FALSE]
              ELSE [range_hdr |-> None,
                    include_entity_headers_on_range |-> TRUE]
         ELSE [range_hdr |-> req_hdrs.range,
               include_entity_headers_on_range |-> FALSE]
    ELSE [range_hdr |-> req_hdrs.range,
          include_entity_headers_on_range |-> TRUE]

\* The If-Range step: the Range header that is left and whether a partial
\* response carries the entity's representation headers.
if_range_step(req_hdrs, etag) ==
    IF IsSome(req_hdrs.if_range)
    THEN IF Get(req_hdrs.if_range).form = "etag"
         THEN IF IsSome(etag) /\ strong_eq(Get(req_hdrs.if_range).tag, Get(etag))
              THEN [range_hdr |-> req_hdrs.range,
                    include_entity_headers_on_range |-> FALSE]
              ELSE [range_hdr |-> None,
                    include_entity_headers_on_range |-> TRUE]
         ELSE [range_hdr |-> None, include_entity_headers_on_range |-> TRUE]
    ELSE [range_hdr |-> req_hdrs.range,
          include_entity_headers_on_range |-> TRUE]

\* Accept-Ranges, then Date and Last-Modified, then ETag.
\* Mutant: Last-Modified as the entity reports it, not clamped to the Date.
common_headers_unclamped(last_modified, etag, d) ==
    LET h0 == SetHeader(NoHeaders, "accept-ranges", "bytes")
        h1 == IF IsSome(last_modified)
              THEN SetHeader(SetHeader(h0, "date", fmt_http_date(d)),
                             "last-modified",
                             fmt_http_date(Get(last_modified)))
              ELSE h0
    IN  IF IsSome(etag) THEN SetHeader(h1, "etag", EtagWire(Get(etag))) ELSE h1

common_headers(last_modified, etag, d) ==
    LET h0 == SetHeader(NoHeaders, "accept-ranges", "bytes")
        h1 == IF IsSome(last_modified)
              THEN SetHeader(SetHeader(h0, "date", fmt_http_date(d)),
                             "last-modified",
                             fmt_http_date(Min(Get(last_modified), d)))
              ELSE h0
    IN  IF IsSome(etag) THEN SetHeader(h1, "etag", EtagWire(Get(etag))) ELSE h1

RECURSIVE est_len_of(_)
est_len_of(rs) ==
    IF rs = <<>> THEN 0
    ELSE PartEstimate + Head(rs).end - Head(rs).start + est_len_of(Tail(rs))

\* `80 + r.end` or the sum of the terms overflows.
est_len_overflows(rs) ==
    \/ \E i \in 1..Len(rs) : add_overflows(PartEstimate, rs[i].end)
    \/ est_len_of(rs) > WordMax

\* Mutant: the entity's headers added whatever the If-Range step chose.
finish_single_adds_always(e, rq, status, res, range, include_entity_headers, cs) ==
    LET h == SetHeader(res, "content-length", ToString(range.end - range.start))
        body == IF rq.method = "HEAD" THEN empty_body ELSE get_range_body(range)
        cs1 == IF rq.method = "HEAD" THEN cs ELSE Append(cs, CallGetRange(range))
    IN  Response(status, add_headers(e.adds, h), body,
                 Append(cs1, Call("add_headers")))

\* Lines 197-209: Content-Length, the body, then the entity's headers.
finish_single(e, rq, status, res, range, include_entity_headers, cs) ==
    LET h == SetHeader(res, "content-length", ToString(range.end - range.start))
        body == IF rq.method = "HEAD" THEN empty_body ELSE get_range_body(range)
        cs1 == IF rq.method = "HEAD" THEN cs ELSE Append(cs, CallGetRange(range))
    IN  IF include_entity_headers
        THEN Response(status, add_headers(e.adds, h), body,
                      Append(cs1, Call("add_headers")))
        ELSE Response(status, h, body, cs1)

\* Lines 159-209: the range is resolved against e.len().
serve_ranges(e, rq, res, range_hdr, include_entity_headers_on_range, cs) ==
    LET len == e.len
        cs1 == Append(cs, Call("len"))
        rr == parse_range_header(range_hdr, len)
    IN  CASE rr.kind = "Panic" -> Panic(cs1)
          [] rr.kind = "None" ->
                finish_single(e, rq, 200, res, Range(0, len), TRUE, cs1)
          [] rr.kind = "Satisfiable" /\ Len(rr.rs) = 1 ->
                finish_single(e, rq, 206,
                    SetHeader(res, "content-range",
                        "bytes " \o ToString(rr.rs[1].start) \o "-"
                        \o ToString(rr.rs[1].end - 1) \o "/" \o ToString(len)),
                    rr.rs[1], include_entity_headers_on_range, cs1)
          [] rr.kind = "Satisfiable" /\ Len(rr.rs) # 1 ->
                IF overflow_checks /\ est_len_overflows(rr.rs)
                THEN Panic(cs1)
                ELSE IF wrapping(est_len_of(rr.rs)) < len
                THEN send_multipart(e, rq, res, rr.rs, len,
                                    include_entity_headers_on_range, cs1)
                ELSE finish_single(e, rq, 200, res, Range(0, len), TRUE, cs1)
          [] rr.kind = "NotSatisfiable" ->
                Response(416,
                    SetHeader(res, "content-range", "bytes */" \o ToString(len)),
                    empty_body, cs1)

\* Mutant: the validators are read and evaluated before the method is looked
\* at.
serve_validators_first(e, rq, d) ==
    LET last_modified == e.last_modified
        etag == e.etag
        cs == <<Call("last_modified"), Call("etag")>>
        pm == parse_modified_hdrs(etag, rq.headers, last_modified)
    IN  IF ~pm.ok
        THEN Response(400, NoHeaders, static_body(pm.err), cs)
        ELSE IF rq.method # "GET" /\ rq.method # "HEAD"
        THEN Response(405, SetHeader(NoHeaders, "allow", "get, head"),
                 static_body("This resource only supports GET and HEAD."), cs)
        ELSE LET ir == if_range_step(rq.headers, etag)
                 res0 == common_headers(last_modified, etag, d)
             IN  IF pm.precondition_failed
                 THEN Response(412, res0,
                               static_body("Precondition failed"), cs)
                 ELSE IF pm.not_modified
                 THEN Response(304, res0, empty_body, cs)
                 ELSE serve_ranges(e, rq, res0, ir.range_hdr,
                          ir.include_entity_headers_on_range, cs)

\* Mutant: the not-modified test before the precondition test.
serve_not_modified_first(e, rq, d) ==
    IF rq.method # "GET" /\ rq.method # "HEAD"
    THEN Response(405, SetHeader(NoHeaders, "allow", "get, head"),
                  static_body("This resource only supports GET and HEAD."), <<>>)
    ELSE LET last_modified == e.last_modified
             etag == e.etag
             cs == <<Call("last_modified"), Call("etag")>>
             pm == parse_modified_hdrs(etag, rq.headers, last_modified)
         IN  IF ~pm.ok
             THEN Response(400, NoHeaders, static_body(pm.err), cs)
             ELSE LET ir == if_range_step(rq.headers, etag)
                      res0 == common_headers(last_modified, etag, d)
                  IN  IF pm.not_modified
                      THEN Response(304, res0, empty_body, cs)
                      ELSE IF pm.precondition_failed
                      THEN Response(412, res0,
                                    static_body("Precondition failed"), cs)
                      ELSE serve_ranges(e, rq, res0, ir.range_hdr,
                               ir.include_entity_headers_on_range, cs)

serve(e, rq, d) ==
    IF rq.method # "GET" /\ rq.method # "HEAD"
    THEN Response(405, SetHeader(NoHeaders, "allow", "get, head"),
                  static_body("This resource only supports GET and HEAD."), <<>>)
    ELSE LET last_modified == e.last_modified
             etag == e.etag
             cs == <<Call("last_modified"), Call("etag")>>
             pm == parse_modified_hdrs(etag, rq.headers, last_modified)
         IN  IF ~pm.ok
             THEN Response(400, NoHeaders, static_body(pm.err), cs)
             ELSE LET ir == if_range_step(rq.headers, etag)
                      res0 == common_headers(last_modified, etag, d)
                  IN  IF pm.precondition_failed
                      THEN Response(412, res0,
                                    static_body("Precondition failed"), cs)
                      ELSE IF pm.not_modified
                      THEN Response(304, res0, empty_body, cs)
                      ELSE serve_ranges(e, rq, res0, ir.range_hdr,
                               ir.include_entity_headers_on_range, cs)

---------------------------------------------------------------------------
(* The chunked body sink (spec 4.7 and 5): a writer side and a reader     *)
(* side, on two tasks, with one slot for the chunk in flight between them. *)

OpResult(op, ok) == [op |-> op, ok |-> ok]

\* The bytes of a write that fit the buffer now.
fits(b, data, size) == SubSeq(data, 1, Min(size - Len(b), Len(data)))

\* The rest of them.
rest(b, data, size) ==
    SubSeq(data, Min(size - Len(b), Len(data)) + 1, Len(data))

\* Mutant: the chunk handed off without its last byte.
handed_off_short(b) == SubSeq(b, 1, Len(b) - 1)

\* The chunk handed off: the buffer as it is.
handed_off(b) == b

\* Mutant: write does not look whether the reader is still there.
Write_ignores_reader(k) ==
    /\ wpc = "idle"
    /\ sink_state = "Open"
    /\ Len(written) + k <= MaxBytes
    /\ wpc' = "write"
    /\ pending' = [i \in 1..k |-> Len(written) + i]
    /\ written' = written \o pending'
    /\ UNCHANGED <<chunk_size, sink_state, buf, slot, wres, rpc, got>>
    /\ UNCHANGED ncalls
    /\ UNCHANGED <<serveVars, gzipVars>>

\* The writer calls write with the next k bytes. With the reader gone the
\* write fails.
Write(k) ==
    /\ wpc = "idle"
    /\ sink_state = "Open"
    /\ Len(written) + k <= MaxBytes
    /\ IF rpc = "gone"
       THEN /\ wres' = OpResult("write", FALSE)
            /\ UNCHANGED <<wpc, pending, written>>
       ELSE /\ wpc' = "write"
            /\ pending' = [i \in 1..k |-> Len(written) + i]
            /\ written' = written \o pending'
            /\ UNCHANGED wres
    /\ UNCHANGED <<chunk_size, sink_state, buf, slot, rpc, got>>
    /\ UNCHANGED ncalls
    /\ UNCHANGED <<serveVars, gzipVars>>

\* The write under way copies what fits into the buffer, and returns when
\* nothing is left to copy.
Buffer ==
    /\ wpc = "write"
    /\ Len(buf) < chunk_size
    /\ buf' = buf \o fits(buf, pending, chunk_size)
    /\ pending' = rest(buf, pending, chunk_size)
    /\ IF pending' = <<>>
       THEN wpc' = "idle" /\ wres' = OpResult("write", TRUE)
       ELSE UNCHANGED <<wpc, wres>>
    /\ UNCHANGED <<chunk_size, sink_state, slot, written, rpc, got>>
    /\ UNCHANGED ncalls
    /\ UNCHANGED <<serveVars, gzipVars>>

\* The buffer must go: it is full and the write has more, or a flush or a
\* close is under way.
MustHandOff ==
    \/ wpc = "write" /\ Len(buf) = chunk_size
    \/ wpc \in {"flush", "close"} /\ buf # <<>>

\* Mutant: the chunk is queued behind the one that waits.
HandOff_queued ==
    /\ MustHandOff
    /\ rpc # "gone"
    /\ slot' = Append(slot, handed_off(buf))
    /\ buf' = <<>>
    /\ UNCHANGED <<chunk_size, sink_state, wpc, pending, wres, written, rpc, got>>
    /\ UNCHANGED ncalls
    /\ UNCHANGED <<serveVars, gzipVars>>

\* The buffer is handed off as a chunk, into the free slot, and a new one
\* allocated. While the slot is taken the writer waits.
HandOff ==
    /\ MustHandOff
    /\ rpc # "gone"
    /\ slot = <<>>
    /\ slot' = <<handed_off(buf)>>
    /\ buf' = <<>>
    /\ UNCHANGED <<chunk_size, sink_state, wpc, pending, wres, written, rpc, got>>
    /\ UNCHANGED ncalls
    /\ UNCHANGED <<serveVars, gzipVars>>

\* The reader is gone: the operation that has a chunk to hand off fails.
HandOffFails ==
    /\ MustHandOff
    /\ rpc = "gone"
    /\ wres' = OpResult(wpc, FALSE)
    /\ wpc' = "idle"
    /\ pending' = <<>>
    /\ UNCHANGED <<chunk_size, sink_state, buf, slot, written, rpc, got>>
    /\ UNCHANGED ncalls
    /\ UNCHANGED <<serveVars, gzipVars>>

\* The writer calls flush: any partial buffer is to be sent.
Flush ==
    /\ wpc = "idle"
    /\ sink_state = "Open"
    /\ IF rpc = "gone"
       THEN wres' = OpResult("flush", FALSE) /\ UNCHANGED wpc
       ELSE wpc' = "flush" /\ UNCHANGED wres
    /\ UNCHANGED <<chunk_size, sink_state, buf, slot, pending, written, rpc, got>>
    /\ UNCHANGED ncalls
    /\ UNCHANGED <<serveVars, gzipVars>>

FlushDone ==
    /\ wpc = "flush"
    /\ buf = <<>>
    /\ wpc' = "idle"
    /\ wres' = OpResult("flush", TRUE)
    /\ UNCHANGED <<chunk_size, sink_state, buf, slot, pending, written, rpc, got>>
    /\ UNCHANGED ncalls
    /\ UNCHANGED <<serveVars, gzipVars>>

\* The writer calls close: flush, then end-of-stream. On a sink that is not
\* open it does nothing.
Close ==
    /\ wpc = "idle"
    /\ ncalls.close < MaxCalls
    /\ ncalls' = [ncalls EXCEPT !.close = @ + 1]
    /\ IF sink_state = "Open"
       THEN wpc' = "close" /\ UNCHANGED wres
       ELSE wres' = OpResult("close", TRUE) /\ UNCHANGED wpc
    /\ UNCHANGED <<chunk_size, sink_state, buf, slot, pending, written, rpc, got>>
    /\ UNCHANGED <<serveVars, gzipVars>>

\* Mutant: end-of-stream without the flush, the partial buffer left behind.
CloseDone_unflushed ==
    /\ wpc = "close"
    /\ sink_state' = "Closed"
    /\ wpc' = "idle"
    /\ wres' = OpResult("close", TRUE)
    /\ UNCHANGED <<chunk_size, buf, slot, pending, written, rpc, got>>
    /\ UNCHANGED ncalls
    /\ UNCHANGED <<serveVars, gzipVars>>

CloseDone ==
    /\ wpc = "close"
    /\ buf = <<>>
    /\ sink_state' = "Closed"
    /\ wpc' = "idle"
    /\ wres' = OpResult("close", TRUE)
    /\ UNCHANGED <<chunk_size, buf, slot, pending, written, rpc, got>>
    /\ UNCHANGED ncalls
    /\ UNCHANGED <<serveVars, gzipVars>>

\* The writer calls abort: the buffer is given up and the reader will be
\* told of a fatal error. On a sink that is not open it does nothing.
Abort ==
    /\ wpc = "idle"
    /\ ncalls.abort < MaxCalls
    /\ ncalls' = [ncalls EXCEPT !.abort = @ + 1]
    /\ IF sink_state = "Open"
       THEN sink_state' = "Aborted" /\ buf' = <<>>
       ELSE UNCHANGED <<sink_state, buf>>
    /\ wres' = OpResult("abort", TRUE)
    /\ UNCHANGED <<chunk_size, slot, wpc, pending, written, rpc, got>>
    /\ UNCHANGED <<serveVars, gzipVars>>

\* The reader takes the chunk that waits in the slot.
Read ==
    /\ rpc = "open"
    /\ slot # <<>>
    /\ got' = got \o Head(slot)
    /\ slot' = Tail(slot)
    /\ UNCHANGED <<chunk_size, sink_state, buf, wpc, pending, wres, written, rpc>>
    /\ UNCHANGED ncalls
    /\ UNCHANGED <<serveVars, gzipVars>>

\* With nothing waiting, the reader of a closed sink sees end-of-stream,
\* the reader of an aborted one the error.
ReadEnd ==
    /\ rpc = "open"
    /\ slot = <<>>
    /\ sink_state # "Open"
    /\ rpc' = IF sink_state = "Closed" THEN "eof" ELSE "error"
    /\ UNCHANGED <<chunk_size, sink_state, buf, slot, wpc, pending, wres, written, got>>
    /\ UNCHANGED ncalls
    /\ UNCHANGED <<serveVars, gzipVars>>

\* The reader side is dropped, and with it the chunk that waited.
DropReader ==
    /\ rpc = "open"
    /\ rpc' = "gone"
    /\ slot' = <<>>
    /\ UNCHANGED <<chunk_size, sink_state, buf, wpc, pending, wres, written, got>>
    /\ UNCHANGED ncalls
    /\ UNCHANGED <<serveVars, gzipVars>>

\* No streaming response is being built.
GzipUnused ==
    /\ sreq = <<>>
    /\ gzip_level = 0
    /\ built = <<>>
    /\ prefers = <<>>

\* The pair as created, for each chunk size; serve is not in use.
SinkInit ==
    /\ chunk_size \in 1..MaxChunk
    /\ sink_state = "Open"
    /\ buf = <<>>
    /\ slot = <<>>
    /\ wpc = "idle"
    /\ pending = <<>>
    /\ wres = OpResult("none", TRUE)
    /\ written = <<>>
    /\ rpc = "open"
    /\ got = <<>>
    /\ ncalls = [close |-> 0, abort |-> 0]
    /\ GzipUnused
    /\ ent = [len |-> 0, etag |-> <<>>, last_modified |-> <<>>, adds |-> <<>>]
    /\ req = [method |-> "GET", headers |-> <<>>]
    /\ now = 0
    /\ pc = "unused"
    /\ resp = <<>>
    /\ state = 0
    /\ out = <<>>
    /\ calls = <<>>
    /\ overflow_checks = FALSE

SinkNext ==
    \/ \E k \in 1..MaxWrite : Write(k)
    \/ Buffer
    \/ HandOff
    \/ HandOffFails
    \/ Flush
    \/ FlushDone
    \/ Close
    \/ CloseDone
    \/ Abort
    \/ Read
    \/ ReadEnd
    \/ DropReader

SinkSpec == SinkInit /\ [][SinkNext]_vars

\* The sink with both tasks scheduled: a reader that has not been dropped
\* keeps polling, and a writer inside a call runs it to its end.
SinkLiveSpec ==
    /\ SinkSpec
    /\ WF_vars(Read)
    /\ WF_vars(ReadEnd)
    /\ WF_vars(Buffer)
    /\ WF_vars(HandOff)
    /\ WF_vars(HandOffFails)
    /\ WF_vars(FlushDone)
    /\ WF_vars(CloseDone)

---------------------------------------------------------------------------
(* The Accept-Encoding negotiator (spec 4.1) and the streaming response    *)
(* builder (spec 4.8, 4.9). A header value is the list of its elements,    *)
(* each a coding and, after `;q=`, the text of a qvalue, one character     *)
(* per item.                                                               *)

Digits == {"0", "1", "2", "3", "4", "5", "6", "7", "8", "9"}

DigitValue(c) == CHOOSE n \in 0..9 : ToString(n) = c

\* Up to three decimals, scaled to thousandths.
millis(frac) ==
    (IF Len(frac) >= 1 THEN DigitValue(frac[1]) * 100 ELSE 0)
    + (IF Len(frac) >= 2 THEN DigitValue(frac[2]) * 10 ELSE 0)
    + (IF Len(frac) >= 3 THEN DigitValue(frac[3]) ELSE 0)

\* A qvalue is 0 or 1, a point if anything follows, and up to three
\* decimals, which after 1 are zeros. Anything else does not parse.
parse_qvalue(t) ==
    IF t = <<>> THEN None
    ELSE IF Len(t) >= 2 /\ t[2] # "." THEN None
    ELSE LET frac == SubSeq(t, 3, Len(t))
         IN  IF Len(frac) > 3 THEN None
             ELSE IF t[1] = "0"
             THEN IF \A i \in 1..Len(frac) : frac[i] \in Digits
                  THEN Some(millis(frac))
                  ELSE None
             ELSE IF t[1] = "1"
             THEN IF \A i \in 1..Len(frac) : frac[i] = "0"
                  THEN Some(1000)
                  ELSE None
             ELSE None

Element(coding, q) == [coding |-> coding, q |-> q]

\* The quality of one element: 1000 without `;q=`.
quality(el) == IF el.q = None THEN Some(1000) ELSE parse_qvalue(Get(el.q))

\* The quality recorded for a coding, if the list names it: the last
\* element that names it is the one recorded.
recorded(els, coding) ==
    LET at == {i \in 1..Len(els) : els[i].coding = coding}
    IN  IF at = {} THEN None
        ELSE quality(els[CHOOSE i \in at : \A j \in at : j <= i])

\* Option::or.
or(a, b) == IF IsSome(a) THEN a ELSE b

\* Option::unwrap_or.
value_or(o, default) == IF IsSome(o) THEN Get(o) ELSE default

\* Mutant: the comparison with identity the wrong way round.
should_gzip_below_identity(accept_encoding) ==
    IF accept_encoding = None THEN FALSE
    ELSE LET els == Get(accept_encoding)
         IN  IF \E i \in 1..Len(els) : quality(els[i]) = None THEN FALSE
             ELSE LET gzip_q == recorded(els, "gzip")
                      identity_q == recorded(els, "identity")
                      star_q == recorded(els, "*")
                      effective_gzip == value_or(or(gzip_q, star_q), 0)
                      effective_identity == value_or(or(identity_q, star_q), 1)
                  IN  effective_gzip > 0 /\ effective_gzip <= effective_identity

\* should_gzip: whether the request prefers gzip over identity.
should_gzip(accept_encoding) ==
    IF accept_encoding = None THEN FALSE
    ELSE LET els == Get(accept_encoding)
         IN  IF \E i \in 1..Len(els) : quality(els[i]) = None THEN FALSE
             ELSE LET gzip_q == recorded(els, "gzip")
                      identity_q == recorded(els, "identity")
                      star_q == recorded(els, "*")
                      effective_gzip == value_or(or(gzip_q, star_q), 0)
                      effective_identity == value_or(or(identity_q, star_q), 1)
                  IN  effective_gzip > 0 /\ effective_gzip >= effective_identity

\* The gzip body writer's two states.
Raw == [kind |-> "Raw", level |-> 0]

Gzipped(level) == [kind |-> "Gzipped", level |-> level]

\* gzip_level takes 0..9.
MaxGzipLevel == 9

StreamRequest(method, accept_encoding) ==
    [method |-> method, accept_encoding |-> accept_encoding]

\* Mutant: the level is not looked at, gzip is on whenever the client
\* prefers it.
build_any_level(rq, size, level) ==
    LET gzip == should_gzip(rq.accept_encoding)
        body_needed == rq.method # "HEAD"
        h1 == SetHeader(NoHeaders, "vary", "accept-encoding")
        h2 == IF gzip THEN SetHeader(h1, "content-encoding", "gzip") ELSE h1
    IN  [headers |-> h2,
         body |-> [kind |-> "stream", chunk_size |-> size],
         writer |-> IF ~body_needed THEN None
                    ELSE Some(IF gzip THEN Gzipped(level) ELSE Raw)]

\* build: the response, whose body is the stream side of a new pair, and
\* the writer, if a body is needed.
build(rq, size, level) ==
    LET gzip == should_gzip(rq.accept_encoding) /\ level > 0
        body_needed == rq.method # "HEAD"
        h1 == SetHeader(NoHeaders, "vary", "accept-encoding")
        h2 == IF gzip THEN SetHeader(h1, "content-encoding", "gzip") ELSE h1
    IN  [headers |-> h2,
         body |-> [kind |-> "stream", chunk_size |-> size],
         writer |-> IF ~body_needed THEN None
                    ELSE Some(IF gzip THEN Gzipped(level) ELSE Raw)]

---------------------------------------------------------------------------
(* The inputs: entities and requests.                                      *)

MultiLen == 2 * PartEstimate + MaxLen + 1

Lens == (0..MaxLen) \cup {MultiLen}

Times == 0..(MaxSecs * TicksPerSec + TicksPerSec - 1)

Now0 == TicksPerSec

HdrTags == {Tag(FALSE, "a"), Tag(TRUE, "a"), Tag(FALSE, "b")}

EntityTags == {None, Some(Tag(FALSE, "a")), Some(Tag(TRUE, "a"))}

SeqsUpTo(S, n) == UNION {[1..k -> S] : k \in 1..n}

TagHdr(kind, items) == [kind |-> kind, items |-> items]

TagHdrs(n) ==
    {None, Some(TagHdr("any", <<>>)), Some(TagHdr("corrupt", <<>>))}
    \cup {Some(TagHdr("items", l)) : l \in SeqsUpTo(HdrTags, n)}

DateHdr(kind, secs) == [kind |-> kind, secs |-> secs]

DateHdrs ==
    {None, Some(DateHdr("garbage", 0)), Some(DateHdr("nonascii", 0))}
    \cup {Some(DateHdr("date", s)) : s \in 0..MaxSecs}

IfRangeHdr(form, tag, secs) == [form |-> form, tag |-> tag, secs |-> secs]

IfRangeHdrs ==
    {None}
    \cup {Some(IfRangeHdr("etag", t, 0)) : t \in HdrTags}
    \cup {Some(IfRangeHdr("date", Tag(FALSE, ""), s)) : s \in 0..MaxSecs}

FromTo(a, b) == [kind |-> "FromTo", a |-> a, b |-> b]

AllFrom(a) == [kind |-> "AllFrom", a |-> a, b |-> 0]

Last(n) == [kind |-> "Last", a |-> n, b |-> 0]

ByteRangeSpecs ==
    {FromTo(a, b) : a, b \in 0..MaxPos} \cup {AllFrom(a) : a \in 0..MaxPos}
    \cup {Last(n) : n \in 0..MaxPos}

RangeHdr(unit, specs) == [unit |-> unit, specs |-> specs]

RangeHdrs(n) ==
    {None, Some(RangeHdr("other", <<>>))}
    \cup {Some(RangeHdr("bytes", l)) : l \in SeqsUpTo(ByteRangeSpecs, n)}

\* Single specs and a few lists of two.
FewRangeHdrs ==
    RangeHdrs(1)
    \cup {Some(RangeHdr("bytes", <<FromTo(0, 0), Last(1)>>)),
          Some(RangeHdr("bytes", <<FromTo(0, MaxLen), Last(MaxLen)>>)),
          Some(RangeHdr("bytes", <<AllFrom(MultiLen), Last(MultiLen)>>))}

Headers(im, inm, ius, ims, ir, rg) ==
    [if_match |-> im, if_none_match |-> inm, if_unmodified_since |-> ius,
     if_modified_since |-> ims, if_range |-> ir, range |-> rg]

Request(method, headers) == [method |-> method, headers |-> headers]

TextPlain == <<[name |-> "content-type", value |-> "text/plain"]>>

Entity(len, etag, last_modified) ==
    [len |-> len, etag |-> etag, last_modified |-> last_modified,
     adds |-> TextPlain]

\* An entity by what its add_headers inserts.
EntityWith(len, etag, last_modified, adds) ==
    [len |-> len, etag |-> etag, last_modified |-> last_modified,
     adds |-> adds]

OptTimes == {None} \cup {Some(t) : t \in Times}

AddedHeader(name, value) == [name |-> name, value |-> value]

\* What an entity's add_headers may insert: nothing, representation
\* headers, or a header serve has set itself.
AddedHeaders ==
    {<<>>, TextPlain,
     <<AddedHeader("content-type", "text/html"),
       AddedHeader("content-language", "en")>>,
     <<AddedHeader("content-range", "bytes 0-0/1")>>,
     <<AddedHeader("etag", "\"z\"")>>,
     <<AddedHeader("date", "9 GMT")>>,
     <<AddedHeader("last-modified", "9 GMT")>>}

\* Range-specs at the ends of the u64 range.
WordSpecs ==
    {FromTo(a, WordMax) : a \in 0..1}
    \cup {FromTo(0, 0), AllFrom(0), Last(1)}

NoResponse == Response(0, NoHeaders, empty_body, <<>>)

---------------------------------------------------------------------------
(* The initial states: one request and one entity, drawn from slices of    *)
(* the input space. The build matters only where a word overflows.         *)

\* Every Range header against every length, nothing conditional.
InitRanges ==
    /\ ent \in {Entity(l, None, None) : l \in Lens}
    /\ req \in {Request(m, Headers(None, None, None, None, None, rg)) :
                    m \in {"GET", "HEAD"}, rg \in RangeHdrs(MaxSpecs)}
    /\ now = Now0

\* Every If-Range header against every etag, with a Range header.
InitIfRange ==
    /\ ent \in {Entity(l, t, lm) : l \in Lens, t \in EntityTags,
                    lm \in {None} \cup {Some(s * TicksPerSec) : s \in 0..MaxSecs}}
    /\ req \in {Request(m, Headers(None, None, None, None, ir, rg)) :
                    m \in {"GET", "HEAD"}, ir \in IfRangeHdrs,
                    rg \in FewRangeHdrs}
    /\ now = Now0

\* The precondition headers: If-Match and If-Unmodified-Since.
InitPrecondition ==
    /\ ent \in {Entity(1, t, lm) : t \in EntityTags, lm \in OptTimes}
    /\ req \in {Request(m, Headers(im, None, ius, None, None, None)) :
                    m \in {"GET", "HEAD"}, im \in TagHdrs(MaxTags),
                    ius \in DateHdrs}
    /\ now = Now0

\* The not-modified headers: If-None-Match and If-Modified-Since.
InitNotModified ==
    /\ ent \in {Entity(1, t, lm) : t \in EntityTags, lm \in OptTimes}
    /\ req \in {Request(m, Headers(None, inm, None, ims, None, None)) :
                    m \in {"GET", "HEAD"}, inm \in TagHdrs(MaxTags),
                    ims \in DateHdrs}
    /\ now = Now0

\* All four validator headers together.
InitConditional ==
    /\ ent \in {Entity(1, t, lm) : t \in EntityTags, lm \in OptTimes}
    /\ req \in {Request(m, Headers(im, inm, ius, ims, None, None)) :
                    m \in {"GET", "HEAD"}, im \in TagHdrs(1), inm \in TagHdrs(1),
                    ius \in DateHdrs, ims \in DateHdrs}
    /\ now = Now0

\* Validators together with Range and If-Range.
InitCross ==
    /\ ent \in {Entity(l, t, None) : l \in Lens, t \in EntityTags}
    /\ req \in {Request(m, Headers(im, inm, None, None, ir, rg)) :
                    m \in {"GET", "HEAD"},
                    im \in {None, Some(TagHdr("items", <<Tag(FALSE, "b")>>))},
                    inm \in TagHdrs(1),
                    ir \in {None, Some(IfRangeHdr("etag", Tag(FALSE, "a"), 0))},
                    rg \in FewRangeHdrs}
    /\ now = Now0

\* The clock against last_modified.
InitClock ==
    /\ ent \in {Entity(MaxLen, None, lm) : lm \in OptTimes}
    /\ req \in {Request(m, Headers(None, None, ius, ims, None, rg)) :
                    m \in {"GET", "HEAD"}, ius \in DateHdrs, ims \in DateHdrs,
                    rg \in {None, Some(RangeHdr("bytes", <<FromTo(0, 0)>>)),
                            Some(RangeHdr("bytes", <<AllFrom(MaxLen)>>))}}
    /\ now \in Times

\* The other methods.
InitOtherMethod ==
    /\ ent \in {Entity(l, t, lm) : l \in {0, MaxLen}, t \in EntityTags,
                    lm \in {None, Some(0)}}
    /\ req \in {Request(m, Headers(im, inm, ius, None, None, rg)) :
                    m \in {"POST", "PUT", "DELETE"},
                    im \in TagHdrs(1), inm \in TagHdrs(1),
                    ius \in {None, Some(DateHdr("garbage", 0))},
                    rg \in {None, Some(RangeHdr("bytes", <<AllFrom(MaxLen)>>))}}
    /\ now = Now0

\* Entities by what their add_headers inserts, with and without a matching
\* If-Range, for each way the range resolves.
InitEntityHeaders ==
    /\ ent \in {EntityWith(l, t, lm, adds) :
                    l \in {MaxLen, MultiLen, 2 * MultiLen},
                    t \in {None, Some(Tag(FALSE, "a"))},
                    lm \in {None, Some(0)}, adds \in AddedHeaders}
    /\ req \in {Request(m, Headers(None, None, None, None, ir, rg)) :
                    m \in {"GET", "HEAD"},
                    ir \in {None, Some(IfRangeHdr("etag", Tag(FALSE, "a"), 0))},
                    rg \in {None,
                            Some(RangeHdr("bytes", <<FromTo(0, 0)>>)),
                            Some(RangeHdr("bytes", <<FromTo(0, 0), Last(1)>>)),
                            Some(RangeHdr("bytes", <<Last(1), FromTo(0, 1),
                                                     FromTo(0, 0)>>)),
                            Some(RangeHdr("bytes", <<AllFrom(MultiLen)>>))}}
    /\ now = Now0

\* Positions and lengths at the end of the word.
InitWord ==
    /\ ent \in {Entity(l, None, None) : l \in {1, MaxLen, WordMax}}
    /\ req \in {Request(m, Headers(None, None, None, None, None,
                                    Some(RangeHdr("bytes", l)))) :
                    m \in {"GET", "HEAD"}, l \in SeqsUpTo(WordSpecs, 2)}
    /\ now = Now0

\* No streaming body is in use.
SinkUnused ==
    /\ chunk_size = 0
    /\ sink_state = "Closed"
    /\ buf = <<>>
    /\ slot = <<>>
    /\ wpc = "idle"
    /\ pending = <<>>
    /\ wres = OpResult("none", TRUE)
    /\ written = <<>>
    /\ rpc = "gone"
    /\ got = <<>>
    /\ ncalls = [close |-> 0, abort |-> 0]

Init ==
    /\ SinkUnused
    /\ GzipUnused
    /\ pc = "start"
    /\ resp = NoResponse
    /\ state = 0
    /\ out = <<>>
    /\ calls = <<>>
    /\ \/ /\ overflow_checks = FALSE
          /\ \/ InitRanges
             \/ InitIfRange
             \/ InitPrecondition
             \/ InitNotModified
             \/ InitConditional
             \/ InitCross
             \/ InitClock
             \/ InitOtherMethod
             \/ InitEntityHeaders
       \/ /\ overflow_checks \in BOOLEAN
          /\ InitWord

---------------------------------------------------------------------------
(* The actions.                                                            *)

BytesItem(text) == [kind |-> "bytes", text |-> text, range |-> <<>>]

RangeItem(r) == [kind |-> "range", text |-> "", range |-> <<r>>]

\* The call of serve: the response is returned with its body unread.
Serve ==
    /\ pc = "start"
    /\ resp' = serve(ent, req, now)
    /\ calls' = resp'.calls
    /\ pc' = IF resp'.body.kind = "panic" THEN "panicked" ELSE "body"
    /\ UNCHANGED <<ent, req, now, state, out, overflow_checks>>
    /\ UNCHANGED <<sinkVars, gzipVars>>

\* The transport polls a single body: nothing, the static text, or the
\* stream get_range returned.
PollSingle ==
    /\ pc = "body"
    /\ resp.body.kind # "multipart"
    /\ out' = CASE resp.body.kind = "empty" -> out
                [] resp.body.kind = "static" ->
                       Append(out, BytesItem(resp.body.text))
                [] resp.body.kind = "range" ->
                       Append(out, RangeItem(resp.body.rs[1]))
    /\ pc' = "end"
    /\ UNCHANGED <<ent, req, now, resp, state, calls, overflow_checks>>
    /\ UNCHANGED <<sinkVars, gzipVars>>

\* Mutant: the parity test inverted, a range's bytes before its header block.
PollMultipart_range_first ==
    /\ pc = "body"
    /\ resp.body.kind = "multipart"
    /\ LET i == state \div 2
           odd == state % 2 = 1
           rs == resp.body.rs
       IN  IF i = Len(rs) /\ odd
           THEN /\ pc' = "end"
                /\ UNCHANGED <<resp, state, out, calls>>
           ELSE IF i = Len(rs)
           THEN /\ out' = Append(out, BytesItem(TRAILER))
                /\ state' = state + 1
                /\ UNCHANGED <<pc, resp, calls>>
           ELSE IF ~odd
           THEN /\ out' = Append(out, RangeItem(rs[i + 1]))
                /\ calls' = Append(calls, CallGetRange(rs[i + 1]))
                /\ state' = state + 1
                /\ UNCHANGED <<pc, resp>>
           ELSE /\ out' = Append(out, BytesItem(resp.body.part_headers[i + 1]))
                /\ resp' = [resp EXCEPT !.body.part_headers[i + 1] = ""]
                /\ state' = state + 1
                /\ UNCHANGED <<pc, calls>>
    /\ UNCHANGED <<ent, req, now, overflow_checks>>
    /\ UNCHANGED <<sinkVars, gzipVars>>

\* The transport polls the multipart body: one step of the unfold closure
\* (serving.rs lines 299-313).
PollMultipart ==
    /\ pc = "body"
    /\ resp.body.kind = "multipart"
    /\ LET i == state \div 2
           odd == state % 2 = 1
           rs == resp.body.rs
       IN  IF i = Len(rs) /\ odd
           THEN /\ pc' = "end"
                /\ UNCHANGED <<resp, state, out, calls>>
           ELSE IF i = Len(rs)
           THEN /\ out' = Append(out, BytesItem(TRAILER))
                /\ state' = state + 1
                /\ UNCHANGED <<pc, resp, calls>>
           ELSE IF odd
           THEN /\ out' = Append(out, RangeItem(rs[i + 1]))
                /\ calls' = Append(calls, CallGetRange(rs[i + 1]))
                /\ state' = state + 1
                /\ UNCHANGED <<pc, resp>>
           ELSE /\ out' = Append(out, BytesItem(resp.body.part_headers[i + 1]))
                /\ resp' = [resp EXCEPT !.body.part_headers[i + 1] = ""]
                /\ state' = state + 1
                /\ UNCHANGED <<pc, calls>>
    /\ UNCHANGED <<ent, req, now, overflow_checks>>
    /\ UNCHANGED <<sinkVars, gzipVars>>

Next == Serve \/ PollSingle \/ PollMultipart

Spec == Init /\ [][Next]_vars

---------------------------------------------------------------------------
(* Streaming requests: the inputs of should_gzip and of the builder, and   *)
(* the steps that apply them.                                              *)

MaxElems == 2

\* Texts after `;q=`: qvalues of each form, and texts that are none.
QTexts ==
    { <<"0">>, <<"0", ".">>, <<"0", ".", "5">>, <<"0", ".", "0", "0", "1">>,
      <<"1">>, <<"1", ".", "0", "0", "0">>,
      <<"1", ".", "5">>, <<"0", ".", "5", "0", "0", "0">>, <<"2">> }

Codings == {"gzip", "identity", "*", "br"}

\* gzip with every text, the other codings with a few.
Elements ==
    {Element("gzip", q) : q \in {None} \cup {Some(t) : t \in QTexts}}
    \cup {Element(c, q) : c \in Codings \ {"gzip"},
                          q \in {None, Some(<<"0">>), Some(<<"0", ".", "5">>)}}

AcceptEncodings == {None} \cup {Some(els) : els \in SeqsUpTo(Elements, MaxElems)}

\* A few header values, of each outcome, for the builder.
FewAcceptEncodings ==
    { None,
      Some(<<Element("gzip", None)>>),
      Some(<<Element("gzip", Some(<<"0">>))>>),
      Some(<<Element("identity", None), Element("gzip", Some(<<"0", ".", "5">>))>>),
      Some(<<Element("*", Some(<<"0", ".", "5">>))>>),
      Some(<<Element("gzip", Some(<<"1", ".", "5">>))>>) }

\* Requests whose Accept-Encoding the negotiator is asked about.
InitNegotiate ==
    /\ sreq \in {StreamRequest("GET", v) : v \in AcceptEncodings}
    /\ gzip_level = 6
    /\ chunk_size = MaxChunk

\* Requests and options for the builder.
InitBuild ==
    /\ sreq \in {StreamRequest(m, v) :
                    m \in {"GET", "HEAD", "POST"}, v \in FewAcceptEncodings}
    /\ gzip_level \in 0..MaxGzipLevel
    /\ chunk_size \in 1..MaxChunk

\* No sink is in use before the build, and serve is not in use.
GzipInit ==
    /\ InitNegotiate \/ InitBuild
    /\ built = <<>>
    /\ prefers = <<>>
    /\ sink_state = "Closed"
    /\ buf = <<>>
    /\ slot = <<>>
    /\ wpc = "idle"
    /\ pending = <<>>
    /\ wres = OpResult("none", TRUE)
    /\ written = <<>>
    /\ rpc = "gone"
    /\ got = <<>>
    /\ ncalls = [close |-> 0, abort |-> 0]
    /\ ent = [len |-> 0, etag |-> <<>>, last_modified |-> <<>>, adds |-> <<>>]
    /\ req = [method |-> "GET", headers |-> <<>>]
    /\ now = 0
    /\ pc = "unused"
    /\ resp = <<>>
    /\ state = 0
    /\ out = <<>>
    /\ calls = <<>>
    /\ overflow_checks = FALSE

Asked(v, b) == [accept_encoding |-> v, gzip |-> b]

\* The caller asks should_gzip about the request at hand.
ShouldGzip ==
    /\ IF prefers = <<>> THEN TRUE
       ELSE prefers[Len(prefers)].accept_encoding # sreq.accept_encoding
    /\ prefers' = Append(prefers, Asked(sreq.accept_encoding,
                                        should_gzip(sreq.accept_encoding)))
    /\ UNCHANGED <<sreq, gzip_level, built>>
    /\ UNCHANGED <<serveVars, sinkVars>>

\* The client sends the request again with the q of its i-th element,
\* which names gzip, replaced by the text t.
NextRequest(i, t) ==
    /\ Len(prefers) = 1
    /\ IF prefers = <<>> THEN FALSE
       ELSE prefers[1].accept_encoding = sreq.accept_encoding
    /\ built = <<>>
    /\ IsSome(sreq.accept_encoding)
    /\ i \in 1..Len(Get(sreq.accept_encoding))
    /\ Get(sreq.accept_encoding)[i].coding = "gzip"
    /\ Get(sreq.accept_encoding)[i].q # Some(t)
    /\ sreq' = [sreq EXCEPT !.accept_encoding =
                   Some([Get(sreq.accept_encoding) EXCEPT ![i].q = Some(t)])]
    /\ UNCHANGED <<gzip_level, built, prefers>>
    /\ UNCHANGED <<serveVars, sinkVars>>

\* The call of streaming_body(req).chunk_size(n).gzip_level(l).build().
Build ==
    /\ built = <<>>
    /\ prefers = <<>>
    /\ built' = build(sreq, chunk_size, gzip_level)
    /\ UNCHANGED <<sreq, gzip_level, prefers>>
    /\ UNCHANGED <<serveVars, sinkVars>>

GzipNext ==
    \/ ShouldGzip
    \/ \E i \in 1..MaxElems, t \in QTexts : NextRequest(i, t)
    \/ Build

GzipSpec == GzipInit /\ [][GzipNext]_vars

---------------------------------------------------------------------------
(* Vocabulary of the properties, stated on the request and the entity.     *)

Served == pc # "start"

IsGetOrHead == req.method \in {"GET", "HEAD"}

TagHeaderParses(h) == ~IsSome(h) \/ Get(h).kind # "corrupt"

DateHeaderParses(h) == ~IsSome(h) \/ Get(h).kind = "date"

ValidatorsParse ==
    /\ TagHeaderParses(req.headers.if_match)
    /\ TagHeaderParses(req.headers.if_none_match)
    /\ DateHeaderParses(req.headers.if_unmodified_since)
    /\ DateHeaderParses(req.headers.if_modified_since)

\* RFC 7232 2.3.2: the strong comparison, the weak comparison.
StronglyEqual(a, b) == a = b /\ ~a.weak

WeaklyEqual(a, b) == a.opaque = b.opaque

ListsTags(h) == IsSome(h) /\ Get(h).kind = "items"

TagsOf(h) == {Get(h).items[i] : i \in 1..Len(Get(h).items)}

DateTicks(h) == Get(h).secs * TicksPerSec

\* Case (a) of the precondition: If-Match lists tags and none is strongly
\* equal to the entity's etag.
IfMatchFails ==
    /\ ListsTags(req.headers.if_match)
    /\ \/ ~IsSome(ent.etag)
       \/ \A t \in TagsOf(req.headers.if_match) :
              ~StronglyEqual(t, Get(ent.etag))

\* Case (b): last_modified is strictly later than If-Unmodified-Since.
IfUnmodifiedSinceFails ==
    /\ IsSome(ent.last_modified)
    /\ IsSome(req.headers.if_unmodified_since)
    /\ Get(req.headers.if_unmodified_since).kind = "date"
    /\ Get(ent.last_modified) > DateTicks(req.headers.if_unmodified_since)

PreconditionFails == IfMatchFails \/ (~IfMatchFails /\ IfUnmodifiedSinceFails)

IfNoneMatchMatches ==
    /\ IsSome(req.headers.if_none_match)
    /\ \/ Get(req.headers.if_none_match).kind = "any"
       \/ /\ ListsTags(req.headers.if_none_match)
          /\ IsSome(ent.etag)
          /\ \E t \in TagsOf(req.headers.if_none_match) :
                 WeaklyEqual(t, Get(ent.etag))

IfModifiedSinceHolds ==
    /\ IsSome(ent.last_modified)
    /\ IsSome(req.headers.if_modified_since)
    /\ Get(req.headers.if_modified_since).kind = "date"
    /\ Get(ent.last_modified) <= DateTicks(req.headers.if_modified_since)

NotModified ==
    IfNoneMatchMatches \/ (~IfNoneMatchMatches /\ IfModifiedSinceHolds)

\* The request passes the conditional checks.
PassesConditions == ValidatorsParse /\ ~PreconditionFails /\ ~NotModified

\* The headers serve sets that add_headers is to leave alone.
ProtectedHeaders == {"content-range", "date", "last-modified", "etag"}

AddedNames == {ent.adds[i].name : i \in 1..Len(ent.adds)}

\* The entity keeps to add_headers' contract (lib.rs 48-55): representation
\* headers only.
RepresentationHeadersOnly == AddedNames \cap ProtectedHeaders = {}

HeaderIs(name, value) ==
    HasHeader(resp.headers, name) /\ resp.headers[name] = value

BytesRange(specs) == Some(RangeHdr("bytes", specs))

ContentRangeOf(s, e, l) ==
    "bytes " \o ToString(s) \o "-" \o ToString(e - 1) \o "/" \o ToString(l)

\* What a finished GET has delivered is the stream get_range(r) returned.
BodyIsGetRange(r) ==
    /\ resp.body = get_range_body(r)
    /\ pc = "end" => out = <<RangeItem(r)>>

BodyIsEmpty ==
    /\ resp.body = empty_body
    /\ pc = "end" => out = <<>>

---------------------------------------------------------------------------
(* C1: a GET with `Range: bytes=s-(e-1)`, 0 <= s < e <= L, no If-Range and *)
(* validators that pass, gets 206, `Content-Range: bytes s-(e-1)/L`,       *)
(* Content-Length e - s and the body get_range([s, e)); a GET without a    *)
(* Range header gets 200, Content-Length L and the body get_range([0, L)). *)
(* The entity is one that keeps to add_headers' contract.                  *)
C1_RangeRequest ==
    (/\ Served
     /\ req.method = "GET"
     /\ RepresentationHeadersOnly
     /\ PassesConditions
     /\ ~IsSome(req.headers.if_range))
    => /\ \A s \in 0..MaxPos : \A e \in 1..(MaxPos + 1) :
              (/\ s < e
               /\ e <= ent.len
               /\ req.headers.range = BytesRange(<<FromTo(s, e - 1)>>))
              => /\ resp.status = 206
                 /\ HeaderIs("content-range", ContentRangeOf(s, e, ent.len))
                 /\ HeaderIs("content-length", ToString(e - s))
                 /\ BodyIsGetRange(Range(s, e))
       /\ ~IsSome(req.headers.range)
              => /\ resp.status = 200
                 /\ HeaderIs("content-length", ToString(ent.len))
                 /\ ~HasHeader(resp.headers, "content-range")
                 /\ BodyIsGetRange(Range(0, ent.len))

\* A GET of [1, 2) of a longer entity, with validators present that pass,
\* has been served and read.
C1_Witness ==
    /\ pc = "end"
    /\ req.method = "GET"
    /\ PassesConditions
    /\ IsSome(req.headers.if_none_match)
    /\ ent.len > 2
    /\ req.headers.range = BytesRange(<<FromTo(1, 1)>>)
    /\ resp.status = 206
    /\ out = <<RangeItem(Range(1, 2))>>

(* C2: if the entity's etag is T and If-None-Match: T is the GET's only    *)
(* validator header, the answer is 304 with an empty body, `ETag: T` and   *)
(* `Accept-Ranges: bytes`, whatever the Range header.                      *)
C2_IfNoneMatchOwnEtag ==
    (/\ Served
     /\ req.method = "GET"
     /\ IsSome(ent.etag)
     /\ req.headers.if_none_match = Some(TagHdr("items", <<Get(ent.etag)>>))
     /\ ~IsSome(req.headers.if_match)
     /\ ~IsSome(req.headers.if_unmodified_since)
     /\ ~IsSome(req.headers.if_modified_since))
    => /\ resp.status = 304
       /\ BodyIsEmpty
       /\ HeaderIs("etag", EtagWire(Get(ent.etag)))
       /\ HeaderIs("accept-ranges", "bytes")

\* The 304 for a weak etag sent back, with a Range nothing satisfies.
C2_Witness ==
    /\ pc = "end"
    /\ req.method = "GET"
    /\ ent.etag = Some(Tag(TRUE, "a"))
    /\ req.headers.if_none_match = Some(TagHdr("items", <<Tag(TRUE, "a")>>))
    /\ ~IsSome(req.headers.if_match)
    /\ req.headers.range = BytesRange(<<AllFrom(MaxPos)>>)
    /\ ent.len <= MaxPos
    /\ resp.status = 304

(* C3: for a GET or HEAD whose validator headers parse, the answer is 412, *)
(* with the body "Precondition failed", exactly when (a) If-Match lists    *)
(* tags and the entity has no etag or none is strongly equal to it, or     *)
(* (b) otherwise, last_modified is strictly later than                     *)
(* If-Unmodified-Since. No If-Match and `If-Match: *` never cause it.      *)
C3_PreconditionFailed ==
    (Served /\ IsGetOrHead /\ ValidatorsParse)
    => /\ resp.status = 412 <=> PreconditionFails
       /\ resp.status = 412 => resp.body = static_body("Precondition failed")
       /\ (/\ ~ListsTags(req.headers.if_match)
           /\ ~IfUnmodifiedSinceFails) => resp.status # 412

\* A 412 by each case: no listed tag matches although a weak one has the
\* etag's opaque part; and a last_modified half a second after the date.
C3_Witness ==
    /\ Served
    /\ ent.etag = Some(Tag(FALSE, "a"))
    /\ req.headers.if_match =
           Some(TagHdr("items", <<Tag(TRUE, "a"), Tag(FALSE, "b")>>))
    /\ resp.status = 412

C3_WitnessSince ==
    /\ Served
    /\ req.headers.if_match = Some(TagHdr("any", <<>>))
    /\ IsSome(ent.last_modified)
    /\ IsSome(req.headers.if_unmodified_since)
    /\ Get(req.headers.if_unmodified_since).kind = "date"
    /\ Get(ent.last_modified) = DateTicks(req.headers.if_unmodified_since) + 1
    /\ resp.status = 412

(* C4: for a GET or HEAD that parses and fails no precondition, the answer *)
(* is 304 exactly when If-None-Match is `*`, or lists a tag weakly equal   *)
(* to the entity's etag, or - If-None-Match absent or not matching - the   *)
(* entity has a last_modified <= the If-Modified-Since date.               *)
C4_NotModified ==
    (Served /\ IsGetOrHead /\ ValidatorsParse /\ ~PreconditionFails)
    => /\ resp.status = 304 <=> NotModified
       /\ (ListsTags(req.headers.if_none_match) /\ ~IsSome(ent.etag)
           /\ ~IfModifiedSinceHolds) => resp.status # 304

\* If-None-Match is present and does not match, and If-Modified-Since
\* still gives the 304.
C4_Witness ==
    /\ Served
    /\ ent.etag = Some(Tag(FALSE, "a"))
    /\ req.headers.if_none_match = Some(TagHdr("items", <<Tag(FALSE, "b")>>))
    /\ IsSome(ent.last_modified)
    /\ IsSome(req.headers.if_modified_since)
    /\ Get(req.headers.if_modified_since).kind = "date"
    /\ Get(ent.last_modified) = DateTicks(req.headers.if_modified_since)
    /\ resp.status = 304

(* C5: for one entity, one set of request headers and one clock reading,   *)
(* HEAD and GET get the same status and the same response headers, names   *)
(* and values, in every outcome: the method decides the body only.         *)
C5_HeadLikeGet ==
    (Served /\ IsGetOrHead)
    => LET other == IF req.method = "GET" THEN "HEAD" ELSE "GET"
           twin == serve(ent, Request(other, req.headers), now)
       IN  /\ twin.status = resp.status
           /\ twin.headers = resp.headers

\* A HEAD answered as multipart, whose twin GET carries the parts.
C5_Witness ==
    /\ Served
    /\ req.method = "HEAD"
    /\ resp.status = 206
    /\ HeaderIs("content-type", "multipart/byteranges; boundary=B")
    /\ HasHeader(resp.headers, "content-length")
    /\ serve(ent, Request("GET", req.headers), now).body.kind = "multipart"

\* The interval a range-spec stands for is non-empty and within [0, l).
YieldsInterval(spec, l) ==
    CASE spec.kind = "FromTo" -> spec.a < Min(spec.b + 1, l)
      [] spec.kind = "AllFrom" -> spec.a < l
      [] spec.kind = "Last" -> 0 < spec.a /\ spec.a < l

HasBytesRange ==
    IsSome(req.headers.range) /\ Get(req.headers.range).unit = "bytes"

RangeSpecs == Get(req.headers.range).specs

IfRangeEtagForm ==
    IsSome(req.headers.if_range) /\ Get(req.headers.if_range).form = "etag"

IfRangeDateForm ==
    IsSome(req.headers.if_range) /\ Get(req.headers.if_range).form = "date"

IfRangeMatches ==
    /\ IfRangeEtagForm
    /\ IsSome(ent.etag)
    /\ StronglyEqual(Get(req.headers.if_range).tag, Get(ent.etag))

RangeNotCancelled == ~IsSome(req.headers.if_range) \/ IfRangeMatches

Invoked(op) == \E i \in 1..Len(calls) : calls[i].op = op

(* C6: the body of every answer to a HEAD is empty, whichever the outcome; *)
(* and a HEAD with one satisfiable range still gets 206 with Content-Range *)
(* and the range's width as Content-Length.                                *)
C6_HeadBodyEmpty ==
    (Served /\ req.method = "HEAD")
    => /\ BodyIsEmpty
       /\ (/\ PassesConditions
           /\ RangeNotCancelled
           /\ HasBytesRange
           /\ Len(RangeSpecs) = 1
           /\ YieldsInterval(RangeSpecs[1], ent.len))
          => /\ resp.status = 206
             /\ HasHeader(resp.headers, "content-range")
             /\ HasHeader(resp.headers, "content-length")

(* C7: a GET or HEAD that passes the conditional checks and carries a      *)
(* bytes Range, not cancelled by If-Range, of which no range-spec yields a *)
(* non-empty interval within [0, L), gets 416 with `Content-Range: bytes   *)
(* */L`, an empty body and no Content-Length, and neither get_range nor    *)
(* add_headers is invoked.                                                 *)
C7_NotSatisfiable ==
    (/\ Served
     /\ IsGetOrHead
     /\ PassesConditions
     /\ RangeNotCancelled
     /\ HasBytesRange
     /\ \A i \in 1..Len(RangeSpecs) : ~YieldsInterval(RangeSpecs[i], ent.len))
    => /\ resp.status = 416
       /\ HeaderIs("content-range", "bytes */" \o ToString(ent.len))
       /\ BodyIsEmpty
       /\ ~HasHeader(resp.headers, "content-length")
       /\ ~Invoked("get_range")
       /\ ~Invoked("add_headers")

WithoutIfRange ==
    Request(req.method, [req.headers EXCEPT !.if_range = None])

WholeEntity ==
    /\ resp.status = 200
    /\ HeaderIs("content-length", ToString(ent.len))
    /\ ~HasHeader(resp.headers, "content-range")
    /\ IF req.method = "GET" THEN BodyIsGetRange(Range(0, ent.len))
       ELSE BodyIsEmpty

(* C8: with If-Range in entity-tag form, the Range header is honoured if   *)
(* and only if the entity has an etag strongly equal to the If-Range       *)
(* value; otherwise it is ignored and the answer is 200 with the whole     *)
(* entity, Content-Length L and no Content-Range, never 206 and never 416. *)
C8_IfRangeEtag ==
    (/\ Served
     /\ IsGetOrHead
     /\ RepresentationHeadersOnly
     /\ PassesConditions
     /\ IfRangeEtagForm)
    => IF IfRangeMatches
       THEN LET plain == serve(ent, WithoutIfRange, now)
            IN  /\ resp.status = plain.status
                /\ resp.body.kind = plain.body.kind
                /\ resp.body.rs = plain.body.rs
                /\ HasHeader(resp.headers, "content-range")
                       = HasHeader(plain.headers, "content-range")
                /\ HasHeader(resp.headers, "content-range")
                       => resp.headers["content-range"]
                              = plain.headers["content-range"]
                /\ (/\ HasBytesRange
                    /\ Len(RangeSpecs) = 1
                    /\ YieldsInterval(RangeSpecs[1], ent.len))
                   => resp.status = 206
       ELSE WholeEntity

\* A weak If-Range with the etag's opaque part does not match, and the
\* satisfiable Range it guards is ignored.
C8_Witness ==
    /\ pc = "end"
    /\ req.method = "GET"
    /\ ent.etag = Some(Tag(FALSE, "a"))
    /\ req.headers.if_range = Some(IfRangeHdr("etag", Tag(TRUE, "a"), 0))
    /\ req.headers.range = BytesRange(<<FromTo(0, 0)>>)
    /\ ent.len > 1
    /\ resp.status = 200

\* The matching If-Range, whose Range is honoured.
C8_WitnessHonoured ==
    /\ Served
    /\ IfRangeMatches
    /\ req.headers.range = BytesRange(<<FromTo(0, 0)>>)
    /\ resp.status = 206

(* C9: with If-Range in date form the Range header is always ignored, even *)
(* when the date is the entity's last_modified: the answer to an otherwise *)
(* unconditional request is 200 with the whole entity and its              *)
(* representation headers, never 206 or 416.                               *)
C9_IfRangeDate ==
    (/\ Served
     /\ IsGetOrHead
     /\ RepresentationHeadersOnly
     /\ PassesConditions
     /\ IfRangeDateForm)
    => /\ WholeEntity
       /\ HeaderIs("content-type", "text/plain")
       /\ Invoked("add_headers")

\* The If-Range date is last_modified to the tick, the Range satisfiable.
C9_Witness ==
    /\ pc = "end"
    /\ req.method = "GET"
    /\ IfRangeDateForm
    /\ IsSome(ent.last_modified)
    /\ Get(ent.last_modified) = DateTicks(req.headers.if_range)
    /\ req.headers.range = BytesRange(<<FromTo(0, 0)>>)
    /\ ent.len > 1
    /\ resp.status = 200

(* C10, as claimed: a GET or HEAD in which a validator header fails to     *)
(* parse gets 400 with the reason as body, and none of 200, 206, 304, 412, *)
(* 416.                                                                    *)
C10_UnparseableIs400 ==
    (Served /\ IsGetOrHead /\ ~ValidatorsParse)
    => /\ resp.status = 400
       /\ resp.body.kind = "static"

\* The evaluator reads a header that does not parse: If-Match; else
\* If-Unmodified-Since, read when If-Match passes and the entity has a
\* last_modified; else If-Modified-Since, read when If-None-Match does not
\* match and the entity has a last_modified.
ReadsUnparseableIfMatch == ~TagHeaderParses(req.headers.if_match)

ReadsUnparseableIfUnmodifiedSince ==
    /\ ~ReadsUnparseableIfMatch
    /\ ~IfMatchFails
    /\ IsSome(ent.last_modified)
    /\ ~DateHeaderParses(req.headers.if_unmodified_since)

ReadsUnparseableIfModifiedSince ==
    /\ ~ReadsUnparseableIfMatch
    /\ ~ReadsUnparseableIfUnmodifiedSince
    /\ ~IfNoneMatchMatches
    /\ IsSome(ent.last_modified)
    /\ ~DateHeaderParses(req.headers.if_modified_since)

(* C10, amended: a GET or HEAD gets 400, with the single-line reason as    *)
(* body and no other status, exactly when the evaluator reads a validator  *)
(* header that does not parse; an unparseable date that is not read (the   *)
(* entity has no last_modified, If-Match already failed, If-None-Match     *)
(* matched) and an unparseable If-None-Match are passed over.              *)
C10_BadRequest ==
    (Served /\ IsGetOrHead)
    => /\ resp.status = 400
          <=> \/ ReadsUnparseableIfMatch
              \/ ReadsUnparseableIfUnmodifiedSince
              \/ ReadsUnparseableIfModifiedSince
       /\ ReadsUnparseableIfMatch
              => resp.body = static_body("Unparseable If-Match header")
       /\ ReadsUnparseableIfUnmodifiedSince
              => resp.body = static_body("Unparseable If-Unmodified-Since")
       /\ ReadsUnparseableIfModifiedSince
              => resp.body = static_body("Unparseable If-Modified-Since")

\* The 400 for a date that is read, after an If-Match that passed.
C10_Witness ==
    /\ pc = "end"
    /\ ListsTags(req.headers.if_match)
    /\ ~IfMatchFails
    /\ IsSome(req.headers.if_unmodified_since)
    /\ Get(req.headers.if_unmodified_since).kind = "nonascii"
    /\ resp.status = 400
    /\ out = <<BytesItem("Unparseable If-Unmodified-Since")>>

---------------------------------------------------------------------------
(* C11: a request whose method is neither GET nor HEAD gets 405 with       *)
(* `Allow: get, head` and the body "This resource only supports GET and    *)
(* HEAD.", whatever its headers and the entity; no method of the entity is *)
(* invoked, then or while the body is read.                                *)
C11_MethodNotAllowed ==
    (Served /\ ~IsGetOrHead)
    => /\ resp.status = 405
       /\ HeaderIs("allow", "get, head")
       /\ resp.body = static_body("This resource only supports GET and HEAD.")
       /\ calls = <<>>
       /\ pc = "end"
              => out = <<BytesItem("This resource only supports GET and HEAD.")>>

\* A DELETE with an If-Match that does not parse and a Range, for an entity
\* with validators, answered and read.
C11_Witness ==
    /\ pc = "end"
    /\ req.method = "DELETE"
    /\ ~TagHeaderParses(req.headers.if_match)
    /\ IsSome(req.headers.range)
    /\ IsSome(ent.etag)
    /\ IsSome(ent.last_modified)
    /\ resp.status = 405
    /\ calls = <<>>

---------------------------------------------------------------------------
\* The response is the multipart one.
IsMultipart ==
    /\ Served
    /\ resp.status = 206
    /\ HeaderIs("content-type", "multipart/byteranges; boundary=B")

\* The body serve returns to the GET with this request's headers.
GetBody == serve(ent, Request("GET", req.headers), now).body

\* "k: v\r\n" for each representation header, in order.
RECURSIVE HeaderLines(_)
HeaderLines(adds) ==
    IF adds = <<>> THEN ""
    ELSE Head(adds).name \o ": " \o Head(adds).value \o "\r\n"
         \o HeaderLines(Tail(adds))

\* The per-part headers: the representation headers unless If-Range
\* matched, and the empty line.
PerPartHeaders ==
    (IF IsSome(req.headers.if_range) THEN "" ELSE HeaderLines(ent.adds))
    \o "\r\n"

BlockOf(r) ==
    "\r\n--B\r\nContent-Range: bytes " \o ToString(r.start) \o "-"
    \o ToString(r.end - 1) \o "/" \o ToString(ent.len) \o "\r\n"

\* The number of bytes of the multipart body for the ranges rs.
RECURSIVE ExactLength(_)
ExactLength(rs) ==
    IF rs = <<>> THEN Len("\r\n--B--\r\n")
    ELSE Len(BlockOf(Head(rs))) + Len(PerPartHeaders)
         + (Head(rs).end - Head(rs).start) + ExactLength(Tail(rs))

\* The number of bytes in the items a body stream yielded, get_range(r)
\* yielding the bytes of r.
RECURSIVE BytesOf(_)
BytesOf(items) ==
    IF items = <<>> THEN 0
    ELSE (IF Head(items).kind = "bytes" THEN Len(Head(items).text)
          ELSE Head(items).range[1].end - Head(items).range[1].start)
         + BytesOf(Tail(items))

(* C12: in a multipart response, of two ranges or more, Content-Length is  *)
(* the sum over the parts of the length of the header block `\r\n--B\r\n   *)
(* Content-Range: bytes S-E/L\r\n`, the per-part headers and the range's   *)
(* width, plus the length of the trailer `\r\n--B--\r\n`; it is the number *)
(* of bytes the GET body delivers, and the HEAD carries the same value.    *)
(* The count is one a u64 holds.                                           *)
C12_MultipartLength ==
    (IsMultipart /\ ExactLength(GetBody.rs) <= WordMax)
    => /\ GetBody.kind = "multipart"
       /\ Len(GetBody.rs) >= 2
       /\ HeaderIs("content-length", ToString(ExactLength(GetBody.rs)))
       /\ (req.method = "GET" /\ pc = "end")
              => BytesOf(out) = ExactLength(GetBody.rs)

\* Three parts with two representation headers each, read to the end; and
\* the HEAD of two parts whose If-Range matched.
C12_Witness ==
    /\ pc = "end"
    /\ req.method = "GET"
    /\ IsMultipart
    /\ Len(ent.adds) = 2
    /\ Len(out) = 7
    /\ BytesOf(out) > 3 * PartEstimate

C12_WitnessHead ==
    /\ IsMultipart
    /\ req.method = "HEAD"
    /\ IsSome(req.headers.if_range)
    /\ Len(GetBody.rs) = 2

---------------------------------------------------------------------------
\* The k-th item of the multipart stream for the ranges rs, k in 1..2N+1.
PartOf(rs, k) ==
    IF k = 2 * Len(rs) + 1 THEN BytesItem("\r\n--B--\r\n")
    ELSE IF k % 2 = 1
    THEN BytesItem(BlockOf(rs[(k + 1) \div 2]) \o PerPartHeaders)
    ELSE RangeItem(rs[k \div 2])

IsGetRange(c) == c.op = "get_range"

(* C13: the body stream of a multipart GET with N ranges yields the header *)
(* block of range 1, get_range(r_1), ..., the header block of range N,     *)
(* get_range(r_N) and the trailer, 2N+1 items, each once, and then ends.   *)
(* get_range has been invoked once for each range the stream has reached,  *)
(* in order, and for no other: for r_i not before the header block of      *)
(* range i has been yielded.                                               *)
C13_MultipartStream ==
    (pc \in {"body", "end"} /\ resp.body.kind = "multipart")
    => LET rs == GetBody.rs
           N == Len(rs)
       IN  /\ resp.body.rs = rs
           /\ Len(out) <= 2 * N + 1
           /\ \A k \in 1..Len(out) : out[k] = PartOf(rs, k)
           /\ SelectSeq(calls, IsGetRange)
                  = [i \in 1..(Len(out) \div 2) |-> CallGetRange(rs[i])]
           /\ pc = "end" => Len(out) = 2 * N + 1

\* Three ranges, the first inside the second, read to the end; and the
\* stream stopped after the second header block, the second range not asked
\* for yet.
C13_Witness ==
    /\ pc = "end"
    /\ resp.body.kind = "multipart"
    /\ Len(out) = 7
    /\ Len(SelectSeq(calls, IsGetRange)) = 3
    /\ out[7] = BytesItem(TRAILER)

C13_WitnessLazy ==
    /\ pc = "body"
    /\ resp.body.kind = "multipart"
    /\ Len(out) = 3
    /\ Len(SelectSeq(calls, IsGetRange)) = 1

---------------------------------------------------------------------------
\* The call went as far as resolving this request's Range header.
ResolverRan ==
    Served /\ IsGetOrHead /\ PassesConditions /\ RangeNotCancelled

\* What the resolver made of it.
Resolved == parse_range_header(req.headers.range, ent.len)

(* C14: whenever the resolver returns Satisfiable(list), the list is not   *)
(* empty and every interval [s, e) of it has s < e and e <= L.             *)
C14_SatisfiableIntervals ==
    (ResolverRan /\ Resolved.kind = "Satisfiable")
    => /\ Resolved.rs # <<>>
       /\ \A i \in 1..Len(Resolved.rs) :
              /\ 0 <= Resolved.rs[i].start
              /\ Resolved.rs[i].start < Resolved.rs[i].end
              /\ Resolved.rs[i].end <= ent.len

(* C15: the single suffix spec `-n` resolves to Satisfiable([[L-n, L)])    *)
(* when 0 < n < L, to NotSatisfiable when n = 0, and to NotSatisfiable     *)
(* when n >= L, L = 0 included.                                            *)
C15_SuffixSpec ==
    (/\ ResolverRan
     /\ HasBytesRange
     /\ Len(RangeSpecs) = 1
     /\ RangeSpecs[1].kind = "Last")
    => LET n == RangeSpecs[1].a
       IN  /\ (0 < n /\ n < ent.len)
                  => Resolved = Satisfiable(<<Range(ent.len - n, ent.len)>>)
           /\ n = 0 => Resolved = NotSatisfiable
           /\ n >= ent.len => Resolved = NotSatisfiable

\* The interval of a range-spec against the length l (spec 4.2): a-b is
\* [a, min(b+1, l)), a- is [a, l), -n is [l-n, l), nothing when n >= l.
IntervalOf(spec, l) ==
    CASE spec.kind = "FromTo" -> Range(spec.a, Min(spec.b + 1, l))
      [] spec.kind = "AllFrom" -> Range(spec.a, l)
      [] spec.kind = "Last" ->
             IF spec.a >= l THEN Range(l, l) ELSE Range(l - spec.a, l)

IsEmptyInterval(r) == r.start >= r.end

\* The non-empty intervals of the specs, one by one, in the client's order.
RECURSIVE Survivors(_, _)
Survivors(specs, l) ==
    IF specs = <<>> THEN <<>>
    ELSE (IF IsEmptyInterval(IntervalOf(Head(specs), l)) THEN <<>>
          ELSE <<IntervalOf(Head(specs), l)>>)
         \o Survivors(Tail(specs), l)

(* C16: each range-spec is resolved on its own, a-b to [a, min(b+1, L))    *)
(* and a- to [a, L); a spec is dropped exactly when its interval is empty; *)
(* the survivors are kept in the client's order, neither merged nor        *)
(* reordered; the result is NotSatisfiable exactly when a bytes Range      *)
(* header is present and every spec was dropped, and None exactly when     *)
(* there is no bytes Range header.                                         *)
C16_EachSpecOnItsOwn ==
    ResolverRan
    => IF HasBytesRange
       THEN IF Survivors(RangeSpecs, ent.len) = <<>>
            THEN Resolved = NotSatisfiable
            ELSE Resolved = Satisfiable(Survivors(RangeSpecs, ent.len))
       ELSE Resolved = ResolvedNone

---------------------------------------------------------------------------
\* serve returned a response.
Responded == pc \in {"body", "end"}

IsAddHeaders(c) == c.op = "add_headers"

TimesAddHeadersInvoked == Len(SelectSeq(calls, IsAddHeaders))

(* C17: add_headers is invoked, once, for the 200 responses and for the    *)
(* 206 responses, single or multipart, to requests without If-Range, and   *)
(* for no other: never for 304, 400, 405, 412 or 416, and never for the    *)
(* 206 to a request whose If-Range matched, whose multipart parts carry    *)
(* Content-Range only.                                                     *)
C17_AddHeadersWhenDue ==
    Responded
    => /\ TimesAddHeadersInvoked <= 1
       /\ TimesAddHeadersInvoked = 1
              <=> \/ resp.status = 200
                  \/ resp.status = 206 /\ ~IsSome(req.headers.if_range)
       /\ resp.status \in {304, 400, 405, 412, 416}
              => TimesAddHeadersInvoked = 0
       /\ (resp.status = 206 /\ IsSome(req.headers.if_range))
              => /\ IfRangeMatches
                 /\ TimesAddHeadersInvoked = 0
                 /\ \A i \in 1..Len(ent.adds) :
                        ~HeaderIs(ent.adds[i].name, ent.adds[i].value)
                 /\ \A k \in 1..Len(out) :
                        (resp.body.kind = "multipart" /\ k % 2 = 1
                         /\ k <= 2 * Len(resp.body.rs))
                        => out[k] = BytesItem(
                               BlockOf(resp.body.rs[(k + 1) \div 2]) \o "\r\n")

\* A multipart GET whose If-Range matched, read to the end, add_headers
\* never invoked; and the single range without If-Range, with it.
C17_Witness ==
    /\ pc = "end"
    /\ IfRangeMatches
    /\ resp.status = 206
    /\ resp.body.kind = "multipart"
    /\ ent.adds # <<>>
    /\ TimesAddHeadersInvoked = 0

C17_WitnessInvoked ==
    /\ pc = "end"
    /\ ~IsSome(req.headers.if_range)
    /\ resp.status = 206
    /\ resp.body.kind = "range"
    /\ TimesAddHeadersInvoked = 1

---------------------------------------------------------------------------
\* The headers serve computes by itself: those of the response to the same
\* request for the same entity with an add_headers that inserts nothing.
CoreHeaders ==
    serve(EntityWith(ent.len, ent.etag, ent.last_modified, <<>>), req, now).headers

(* C18: in a single-body response for which add_headers was invoked, and   *)
(* whatever entries it wrote, each of Content-Range, Date, Last-Modified   *)
(* and ETag that the core set has the value the core computed.             *)
C18_CoreHeadersKept ==
    (Responded /\ ~IsMultipart /\ TimesAddHeadersInvoked = 1)
    => \A name \in ProtectedHeaders :
           HasHeader(CoreHeaders, name)
           => HeaderIs(name, CoreHeaders[name])

---------------------------------------------------------------------------
(* C19: serve does not panic, for any length and any Range header with      *)
(* positions up to u64::MAX: b + 1 and the estimate, the sum of             *)
(* 80 + r.end - r.start, do not overflow, and the single spec a-b with      *)
(* b = u64::MAX and a < L resolves to [a, L).                               *)
C19_NeverPanics ==
    /\ pc # "panicked"
    /\ (ResolverRan /\ HasBytesRange)
           => /\ ~range_to_overflows(RangeSpecs)
              /\ (Resolved.kind = "Satisfiable" /\ Len(Resolved.rs) # 1)
                     => ~est_len_overflows(Resolved.rs)
              /\ (/\ Len(RangeSpecs) = 1
                  /\ RangeSpecs[1].kind = "FromTo"
                  /\ RangeSpecs[1].b = WordMax
                  /\ RangeSpecs[1].a < ent.len)
                     => Resolved = Satisfiable(<<Range(RangeSpecs[1].a, ent.len)>>)

---------------------------------------------------------------------------
IsPrefix(a, b) == Len(a) <= Len(b) /\ a = SubSeq(b, 1, Len(a))

(* C20: whatever the chunk size, the split of the bytes into writes and    *)
(* the interleaving of the writer and the reader, what the reader has      *)
(* observed is at any time a prefix of the bytes passed to the writes, and *)
(* when it sees end-of-stream it is all of them: no byte lost, doubled or  *)
(* out of order. Before that, the bytes not yet observed are those in the  *)
(* slot, the buffer and the write under way, in that order.                *)
C20_InOrder ==
    /\ IsPrefix(got, written)
    /\ rpc = "eof" => got = written
    /\ (rpc = "open" /\ sink_state # "Aborted" /\ wres.ok)
           => got \o (IF slot = <<>> THEN <<>> ELSE Head(slot))
                  \o buf \o pending = written

\* End-of-stream after every byte, written in several writes and carried
\* in chunks whose boundaries are not the writes'.
C20_Witness ==
    /\ rpc = "eof"
    /\ chunk_size = MaxChunk
    /\ Len(got) = MaxBytes
    /\ wres = OpResult("close", TRUE)

---------------------------------------------------------------------------
\* The bytes of the chunk that waits between the two sides.
InFlight == IF slot = <<>> THEN <<>> ELSE Head(slot)

\* A closed sink holds nothing back: the partial buffer went out as a chunk
\* before the end-of-stream, which the reader sees after the last chunk.
ClosedIsFlushed ==
    /\ sink_state = "Closed" => buf = <<>> /\ pending = <<>>
    /\ (sink_state = "Closed" /\ rpc \in {"open", "eof"})
           => got \o InFlight = written
    /\ rpc = "eof" => sink_state = "Closed" /\ slot = <<>> /\ got = written

\* On a closed sink no step, a further close among them, brings a chunk or
\* a second end-of-stream: the chunk in flight can only leave.
ClosedStays ==
    sink_state = "Closed" =>
        /\ sink_state' = "Closed"
        /\ buf' = buf
        /\ written' = written
        /\ slot' = slot \/ (slot # <<>> /\ slot' = <<>>)
        /\ rpc = "eof" => rpc' = "eof" /\ got' = got

(* C21: close flushes the partial buffer and signals end-of-stream; a      *)
(* further close changes nothing, sends no second end-of-stream and no     *)
(* chunk; a close under way ends, closed or failed for want of a reader;   *)
(* and after close a reader that keeps reading sees end-of-stream in the   *)
(* end, and only after every chunk buffered before the close.              *)
C21_CloseEndsStream ==
    /\ []ClosedIsFlushed
    /\ [][ClosedStays]_vars
    /\ (wpc = "close") ~> (sink_state = "Closed" \/ wres = OpResult("close", FALSE))
    /\ (sink_state = "Closed") ~> (rpc \in {"eof", "gone"})

\* The reader has seen end-of-stream after a full chunk and the partial one
\* the close flushed, and the writer has closed twice.
C21_Witness ==
    /\ rpc = "eof"
    /\ ncalls.close = 2
    /\ ncalls.abort = 0
    /\ Len(got) > chunk_size
    /\ Len(got) % chunk_size # 0

---------------------------------------------------------------------------
\* With the reader gone, a write or a flush the writer calls fails at once:
\* it does not start, takes no byte and reports the failure.
FailsWithoutReader ==
    (rpc = "gone" /\ wpc = "idle") =>
        /\ wpc' \notin {"write", "flush"}
        /\ written' = written
        /\ (wres' # wres /\ wres'.op \in {"write", "flush"}) => ~wres'.ok

\* An aborted sink stays aborted, whatever is called on it, a further abort
\* included; the reader is told of the error once.
AbortedStays ==
    sink_state = "Aborted" =>
        /\ sink_state' = "Aborted"
        /\ buf' = buf
        /\ rpc = "error" => rpc' = "error" /\ got' = got

\* Closed and Aborted are final.
NeverReopens == sink_state # "Open" => sink_state' = sink_state

(* C22: once the reader side is dropped every write or flush the writer    *)
(* calls fails, and one that was under way ends instead of waiting for     *)
(* ever; aborting an aborted sink leaves it Aborted and delivers no second *)
(* error; a sink that is Aborted or Closed is never Open again.            *)
C22_ReaderGone ==
    /\ [][FailsWithoutReader]_vars
    /\ [][AbortedStays]_vars
    /\ [][NeverReopens]_vars
    /\ (rpc = "gone" /\ wpc \in {"write", "flush"}) ~> (wpc = "idle")

\* A write failed because the reader was dropped, with bytes of earlier
\* writes still in the buffer.
C22_Witness ==
    /\ rpc = "gone"
    /\ sink_state = "Open"
    /\ wres = OpResult("write", FALSE)
    /\ buf # <<>>

\* The sink was aborted twice and the reader has been told.
C22_WitnessAborted ==
    /\ ncalls.abort = 2
    /\ sink_state = "Aborted"
    /\ rpc = "error"

---------------------------------------------------------------------------
\* The writer waits at a hand-off: its buffer must go and the slot is taken.
WriterWaits == MustHandOff /\ slot # <<>>

\* The reader waits: nothing in the slot, and neither end-of-stream nor an
\* abort to report.
ReaderWaits == rpc = "open" /\ slot = <<>> /\ sink_state = "Open"

\* While the writer waits its call makes no progress: the one step that can
\* happen is the reader's, taking (or dropping) the chunk in the slot.
WaitsForReader ==
    WriterWaits =>
        /\ wpc' = wpc /\ buf' = buf /\ pending' = pending /\ wres' = wres
        /\ slot' = <<>>

\* While the reader waits it observes nothing and no end.
WaitsForWriter ==
    ReaderWaits => got' = got /\ rpc' \in {"open", "gone"}

C23_WitnessReader ==
    /\ ReaderWaits
    /\ got # <<>>
    /\ buf # <<>>

---------------------------------------------------------------------------
\* No read has happened yet: chunks are never empty, so the reader has
\* observed nothing exactly when it has taken none.
ReaderNotStarted == rpc = "open" /\ got = <<>>

(* C24: the writer may write the whole body, many times chunk_size, and be *)
(* dropped before any reader has started consuming: while no read has      *)
(* happened no write waits for the reader, so every write completes, and   *)
(* the reader that starts afterwards receives all the bytes written and    *)
(* then end-of-stream.                                                     *)
C24_WrittenBeforeRead ==
    /\ ReaderNotStarted => ~WriterWaits
    /\ rpc = "eof" => got = written /\ sink_state = "Closed"

---------------------------------------------------------------------------
Built == built # <<>>

GzipAdded ==
    /\ HasHeader(built.headers, "content-encoding")
    /\ built.headers["content-encoding"] = "gzip"

(* C25: for every request, chunk_size and gzip_level in 0..9 the response  *)
(* the builder returns has `Vary: accept-encoding`; it has                 *)
(* `Content-Encoding: gzip` if and only if should_gzip holds of the        *)
(* request and gzip_level > 0 (and no other Content-Encoding); it has no   *)
(* Content-Length; no writer is returned if and only if the method is      *)
(* HEAD; a writer returned is Gzipped(gzip_level) exactly when             *)
(* `Content-Encoding: gzip` was added and Raw otherwise, so at level 0 it  *)
(* is Raw.                                                                 *)
C25_Builder ==
    Built =>
        /\ HasHeader(built.headers, "vary")
        /\ built.headers["vary"] = "accept-encoding"
        /\ GzipAdded <=> (should_gzip(sreq.accept_encoding) /\ gzip_level > 0)
        /\ HasHeader(built.headers, "content-encoding") => GzipAdded
        /\ ~HasHeader(built.headers, "content-length")
        /\ built.writer = None <=> sreq.method = "HEAD"
        /\ IsSome(built.writer) =>
               Get(built.writer) = IF GzipAdded THEN Gzipped(gzip_level) ELSE Raw
        /\ (IsSome(built.writer) /\ gzip_level = 0) => Get(built.writer) = Raw

\* A GET that prefers gzip, built at level 9: a Gzipped(9) writer.
C25_Witness ==
    /\ Built
    /\ sreq.method = "GET"
    /\ gzip_level = MaxGzipLevel
    /\ GzipAdded
    /\ built.writer = Some(Gzipped(MaxGzipLevel))

\* A request that prefers gzip, built at level 0: a Raw writer.
C25_WitnessLevel0 ==
    /\ Built
    /\ sreq.method # "HEAD"
    /\ gzip_level = 0
    /\ should_gzip(sreq.accept_encoding)
    /\ built.writer = Some(Raw)

\* A HEAD that prefers gzip: the header and no writer.
C25_WitnessHead ==
    /\ Built
    /\ sreq.method = "HEAD"
    /\ GzipAdded
    /\ built.writer = None

---------------------------------------------------------------------------
\* The thousandths each qvalue text stands for; the other texts are no
\* qvalues.
Thousandths ==
    (<<"0">> :> 0) @@ (<<"0", ".">> :> 0) @@ (<<"0", ".", "5">> :> 500)
    @@ (<<"0", ".", "0", "0", "1">> :> 1) @@ (<<"1">> :> 1000)
    @@ (<<"1", ".", "0", "0", "0">> :> 1000)

IsQValue(q) == q = None \/ Get(q) \in DOMAIN Thousandths

QOf(q) == IF q = None THEN 1000 ELSE Thousandths[Get(q)]

Parseable(v) ==
    /\ IsSome(v)
    /\ \A i \in 1..Len(Get(v)) : IsQValue(Get(v)[i].q)

Names(v, coding) == {i \in 1..Len(Get(v)) : Get(v)[i].coding = coding}

LastNaming(v, coding) ==
    CHOOSE i \in Names(v, coding) : \A j \in Names(v, coding) : j <= i

\* The effective gzip quality of a parseable value: gzip's own if named,
\* else the wildcard's, else 0.
EffectiveGzip(v) ==
    IF Names(v, "gzip") # {} THEN QOf(Get(v)[LastNaming(v, "gzip")].q)
    ELSE IF Names(v, "*") # {} THEN QOf(Get(v)[LastNaming(v, "*")].q)
    ELSE 0

\* w is v but for one element that names gzip, whose q is higher in w.
GzipRaised(v, w) ==
    /\ Parseable(v) /\ Parseable(w)
    /\ Len(Get(v)) = Len(Get(w))
    /\ \E i \in Names(v, "gzip") :
           /\ QOf(Get(w)[i].q) > QOf(Get(v)[i].q)
           /\ Get(w) = [Get(v) EXCEPT ![i].q = Get(w)[i].q]

(* C26: of two parseable Accept-Encoding values that differ only in that   *)
(* the second gives gzip a higher q-value, should_gzip is true of the      *)
(* second if it is of the first; and should_gzip is false of a value that  *)
(* is absent, does not parse, or whose effective gzip quality is 0.        *)
C26_Monotone ==
    /\ (/\ Len(prefers) = 2
        /\ GzipRaised(prefers[1].accept_encoding, prefers[2].accept_encoding))
           => (prefers[1].gzip => prefers[2].gzip)
    /\ \A k \in 1..Len(prefers) :
           LET v == prefers[k].accept_encoding
           IN  (v = None \/ ~Parseable(v) \/ EffectiveGzip(v) = 0)
                   => ~prefers[k].gzip

\* gzip was preferred at q=0.5 beside identity, and still is at q=1.
C26_Witness ==
    /\ Len(prefers) = 2
    /\ GzipRaised(prefers[1].accept_encoding, prefers[2].accept_encoding)
    /\ Names(prefers[1].accept_encoding, "identity") # {}
    /\ EffectiveGzip(prefers[1].accept_encoding) = 500
    /\ prefers[1].gzip
    /\ prefers[2].gzip

\* Raising gzip's q turned a refusal into a preference.
C26_WitnessTurns ==
    /\ Len(prefers) = 2
    /\ GzipRaised(prefers[1].accept_encoding, prefers[2].accept_encoding)
    /\ ~prefers[1].gzip
    /\ prefers[2].gzip

---------------------------------------------------------------------------
\* The evaluator reads a validator header that does not parse.
ReadsUnparseable ==
    \/ ReadsUnparseableIfMatch
    \/ ReadsUnparseableIfUnmodifiedSince
    \/ ReadsUnparseableIfModifiedSince

\* The position of the first call of op among the entity's calls, 0 if none.
FirstCall(op) ==
    IF Invoked(op)
    THEN CHOOSE i \in 1..Len(calls) :
             calls[i].op = op /\ \A j \in 1..(i - 1) : calls[j].op # op
    ELSE 0

\* The Range header, as left by If-Range, names no interval of the entity.
RangeUnsatisfiable ==
    /\ RangeNotCancelled
    /\ parse_range_header(req.headers.range, ent.len) = NotSatisfiable

(* C27: serve decides in a fixed order. Another method gets 405 whatever   *)
(* its headers; a GET or HEAD whose validators fail to parse gets 400 even *)
(* if a precondition fails; else a failed precondition gets 412 even if a  *)
(* not-modified condition matches; else a matching not-modified condition  *)
(* gets 304 even if the Range is unsatisfiable; 200, 206 and 416 come only *)
(* after both. E.len() is not read in a call that ends 405, 400, 412 or    *)
(* 304, and where it is read it is read after the validators.              *)
C27_FixedOrder ==
    Served =>
        /\ ~IsGetOrHead => resp.status = 405
        /\ (IsGetOrHead /\ ReadsUnparseable) => resp.status = 400
        /\ (IsGetOrHead /\ ~ReadsUnparseable /\ PreconditionFails)
               => resp.status = 412
        /\ (IsGetOrHead /\ ~ReadsUnparseable /\ ~PreconditionFails /\ NotModified)
               => resp.status = 304
        /\ resp.status \in {200, 206, 416}
               => /\ IsGetOrHead /\ ~ReadsUnparseable
                  /\ ~PreconditionFails /\ ~NotModified
                  /\ FirstCall("len") > FirstCall("last_modified")
                  /\ FirstCall("len") > FirstCall("etag")
                  /\ FirstCall("etag") > 0 /\ FirstCall("last_modified") > 0
        /\ resp.status \in {405, 400, 412, 304}
               => ~Invoked("len") /\ ~Invoked("get_range")

\* A precondition fails and a not-modified condition matches: 412.
C27_Witness ==
    /\ Served
    /\ PreconditionFails
    /\ NotModified
    /\ resp.status = 412

\* A not-modified condition matches and the Range is unsatisfiable: 304.
C27_WitnessRange ==
    /\ Served
    /\ NotModified
    /\ RangeUnsatisfiable
    /\ resp.status = 304
    /\ ~Invoked("len")

\* If-Match fails and the If-Modified-Since that is read does not parse:
\* 400.
C27_WitnessBadRequest ==
    /\ Served
    /\ IfMatchFails
    /\ ReadsUnparseableIfModifiedSince
    /\ resp.status = 400

---------------------------------------------------------------------------
\* The satisfiable intervals of this request's Range header.
SatisfiableIntervals == Survivors(RangeSpecs, ent.len)

\* The sum over the intervals of 80 + width.
Estimate(rs) == est_len_of(rs)

(* C28: for an entity that keeps to representation headers, when the Range *)
(* header resolves to two or more satisfiable intervals and the estimate,  *)
(* the sum of 80 + width over them, is at least L, the answer is 200 with  *)
(* the whole entity, Content-Length L, no Content-Range, no multipart      *)
(* Content-Type and the representation headers, also under a matching      *)
(* If-Range; when the estimate is below L it is the 206 with               *)
(* `Content-Type: multipart/byteranges; boundary=B`; with exactly one      *)
(* satisfiable interval the answer is the single-range 206, never 200.     *)
C28_EstimateFallback ==
    (ResolverRan /\ HasBytesRange /\ RepresentationHeadersOnly) =>
        LET rs == SatisfiableIntervals
        IN  /\ (Len(rs) >= 2 /\ Estimate(rs) >= ent.len)
                   => /\ WholeEntity
                      /\ ~HeaderIs("content-type", "multipart/byteranges; boundary=B")
                      /\ Invoked("add_headers")
            /\ (Len(rs) >= 2 /\ Estimate(rs) < ent.len) => IsMultipart
            /\ Len(rs) = 1
                   => /\ resp.status = 206
                      /\ ~IsMultipart
                      /\ HeaderIs("content-range",
                             ContentRangeOf(rs[1].start, rs[1].end, ent.len))

---------------------------------------------------------------------------
\* The seconds a date header of the response shows, if it shows a date.
ShowsSeconds(name, s) ==
    HasHeader(resp.headers, name) /\ resp.headers[name] = ToString(s) \o " GMT"

SecondsShown == 0..(MaxSecs + 1)

(* C29: for an entity that keeps to representation headers and has a       *)
(* last_modified, every 200, 206, 304, 412 and 416 serve returns has Date, *)
(* the time of the call, and Last-Modified, the earlier of last_modified   *)
(* and that time, so that the Last-Modified shown is never later than the  *)
(* Date shown, also for a last_modified in the future; for an entity       *)
(* without last_modified no response has either header.                    *)
C29_DateAndLastModified ==
    (Responded /\ RepresentationHeadersOnly) =>
        /\ (IsSome(ent.last_modified)
            /\ resp.status \in {200, 206, 304, 412, 416})
               => /\ HeaderIs("date", fmt_http_date(now))
                  /\ HeaderIs("last-modified",
                         fmt_http_date(Min(Get(ent.last_modified), now)))
                  /\ \E d, m \in SecondsShown :
                         /\ ShowsSeconds("date", d)
                         /\ ShowsSeconds("last-modified", m)
                         /\ m <= d
        /\ ~IsSome(ent.last_modified)
               => /\ ~HasHeader(resp.headers, "date")
                  /\ ~HasHeader(resp.headers, "last-modified")

\* A last_modified a second ahead of the clock: Last-Modified shows the
\* time of the call.
C29_Witness ==
    /\ Responded
    /\ IsSome(ent.last_modified)
    /\ Get(ent.last_modified) \div TicksPerSec > now \div TicksPerSec
    /\ resp.status = 206
    /\ HeaderIs("last-modified", fmt_http_date(now))

\* An entity without last_modified, answered 200.
C29_WitnessNone ==
    /\ Responded
    /\ ~IsSome(ent.last_modified)
    /\ IsSome(ent.etag)
    /\ resp.status = 200

---------------------------------------------------------------------------
\* The intervals handed to get_range so far, by serve and by the multipart
\* body stream.
AskedRanges ==
    {calls[i].range[1] : i \in {j \in 1..Len(calls) : calls[j].op = "get_range"}}

(* C30: the entity is never asked for bytes it does not have: every        *)
(* interval r passed to get_range, by serve or by the multipart framer,    *)
(* has r.start <= r.end <= L, for every request, Range header and L, 0     *)
(* included; and every interval that comes from a Range header, those of a *)
(* 206, is non-empty.                                                      *)
C30_NeverBeyondEntity ==
    \A r \in AskedRanges :
        /\ r.start <= r.end
        /\ r.end <= ent.len
        /\ resp.status = 206 => r.start < r.end

====
